---------------------------- MODULE Spec2Model ----------------------------
(***************************************************************************)
(* Model of the split synchronizer (splitio/sync/split.py) and of the      *)
(* impression pipeline exercised by tests/engine/test_impressions.py.      *)
(*                                                                         *)
(* Optional values (Python None) are sequences of length at most one:      *)
(* None is <<>> and a present value x is <<x>>.                            *)
(***************************************************************************)
EXTENDS Integers, Sequences, FiniteSets, TLC

VARIABLES storage, backoff, th, hist,
          manager, observer, counter, unique_keys, out, seen, calls,
          shutdown, local, auth

syncVars == <<storage, backoff, th, hist>>

impVars == <<manager, observer, counter, unique_keys, out, seen, calls>>

\* the shutdown request of the host, the localhost synchronizer and the
\* auth API, which neither the remote synchronizer nor the impression
\* pipeline touches
hostVars == <<shutdown, local, auth>>

vars == <<storage, backoff, th, hist,
          manager, observer, counter, unique_keys, out, seen, calls,
          shutdown, local, auth>>

None == <<>>

Some(x) == <<x>>

Min(a, b) == IF a <= b THEN a ELSE b

RECURSIVE Pow2(_)
Pow2(n) == IF n = 0 THEN 1 ELSE 2 * Pow2(n - 1)

BSeq(S, n) == UNION {[1..k -> S] : k \in 0..n}

\* no localhost synchronizer
NoLocal == [mode |-> "none"]

\* no call of the auth API yet
NoAuth == [calls |-> 0, auth_rejections |-> 0, recorded |-> None,
           response |-> None, result |-> None]

(***************************************************************************)
(* Bounds of the model.                                                    *)
(***************************************************************************)
\* largest change number the fetch API answers with
MaxCN == 1

\* largest number of splits in one answer of the service
MaxSplits == 1

\* largest number of splits in one arbitrary fetch response
MaxApply == 2

\* largest number of fetches followed inside one _fetch_until call
MaxFetch == 2

(***************************************************************************)
(* Program constants.                                                      *)
(***************************************************************************)
ON_DEMAND_FETCH_BACKOFF_BASE == 10

ON_DEMAND_FETCH_BACKOFF_MAX_WAIT == 30

ON_DEMAND_FETCH_BACKOFF_MAX_RETRIES == 10

(***************************************************************************)
(* The fetch API's answers.                                                *)
(***************************************************************************)
CNs == -1..MaxCN

\* a till passed by streaming: none, or a change number, possibly one the
\* API never reaches
Tills == {None, Some(0), Some(MaxCN + 1)}

ACTIVE == "ACTIVE"

ARCHIVED == "ARCHIVED"

RawSplits ==
    { [name |-> "A", status |-> ACTIVE, segs |-> {"s1"}],
      [name |-> "A", status |-> ARCHIVED, segs |-> {}],
      [name |-> "B", status |-> ACTIVE, segs |-> {}] }

\* the raw splits that define the split called A
RawSplitsA == { r \in RawSplits : r.name = "A" }

Responses(raws, n) ==
    { [since |-> s, till |-> t, splits |-> l] :
        s \in CNs, t \in CNs, l \in BSeq(raws, n) }

\* the fetch API's contract: since <= till
ApiResponses(raws, n) == { r \in Responses(raws, n) : r.since <= r.till }

\* the service answers a request for the changes since cn with since = cn
ServerResponses(cn) ==
    { r \in ApiResponses(RawSplitsA, MaxSplits) : r.since = cn }

ApiErrors == {"e1", "e2"}


(***************************************************************************)
(* Collaborators of the synchronizer.                                      *)
(***************************************************************************)
\* FetchOptions(cache_control_headers, change_number)
FetchOptions(cache, cn) == [cache_control_headers |-> cache, change_number |-> cn]

\* synchronize_splits' options of the first pass: Cache-Control no-cache
PlainOptions == FetchOptions(TRUE, None)

\* (mutant) the second pass is issued without the change number
BypassOptionsNoHint(change_number) == FetchOptions(TRUE, None)

\* synchronize_splits' options of the second pass: the flag for bypassing the CDN
BypassOptions(change_number) == FetchOptions(TRUE, Some(change_number))

\* splits.from_raw: the parsed split keeps the name and the segment names
FromRaw(raw) == [name |-> raw.name, segs |-> raw.segs]

\* Backoff.get: min(base * 2^attempt, max_allowed)
BackoffGet(base, maxAllowed, attempt) == Min(base * Pow2(attempt), maxAllowed)

\* Backoff.reset
BackoffReset == 0

(***************************************************************************)
(* _fetch_until: its conditions and its storage updates.                   *)
(***************************************************************************)
\* get_change_number(), None read as -1
StorageChangeNumber(st) == IF st.cn = None THEN -1 ELSE st.cn[1]

\* (mutant) a till equal to the change number ends the loop too
TillBehindOrEqual(till, cn) == till /= None /\ till[1] <= cn

\* "the passed till is less than change_number, no need to perform updates"
TillBehind(till, cn) == till /= None /\ till[1] < cn

\* what applying one split of a response raises: split['status'] and
\* split['name'] raise KeyError on a split without the key, and
\* splits.from_raw raises on an ACTIVE split it cannot parse (here: one
\* without name or without segments)
Raises(raw) ==
    IF "status" \notin DOMAIN raw THEN TRUE
    ELSE IF raw.status = ACTIVE THEN ~({"name", "segs"} \subseteq DOMAIN raw)
    ELSE "name" \notin DOMAIN raw

\* one split of a response: put when ACTIVE, remove by name otherwise
ApplySplit(splits, raw) ==
    IF raw.status = ACTIVE THEN splits \cup {FromRaw(raw).name}
    ELSE splits \ {raw.name}

\* the segment names one split adds to segment_list
SplitSegments(raw) == IF raw.status = ACTIVE THEN FromRaw(raw).segs ELSE {}

\* the index of the split the loop applies next
NextSplit(idx) == idx

\* (mutant) the loop stops one split early
SplitsAppliedEarly(resp, idx) == idx >= Len(resp.splits)

\* the loop over the response's splits has ended
SplitsApplied(resp, idx) == idx > Len(resp.splits)

\* (mutant) any response whose till is not below its since ends the loop
ConvergedLoose(resp) == resp.till >= resp.since

\* since == till
Converged(resp) == resp.till = resp.since

(***************************************************************************)
(* _attempt_split_sync: its conditions.                                    *)
(***************************************************************************)
\* (mutant) a change number equal to till does not complete the sync
SyncCompleteStrict(till, cn) == till = None \/ till[1] < cn

\* line 108: till is None or till <= change_number
SyncComplete(till, cn) == till = None \/ till[1] <= cn

\* (mutant) one attempt too many
AttemptsExhaustedLate(remaining) == remaining < 0

\* line 110: remaining_attempts <= 0
AttemptsExhausted(remaining) == remaining <= 0

(***************************************************************************)
(* State of one synchronize_splits call (th) and what it has done (hist).  *)
(***************************************************************************)
IdleThread ==
    [pc |-> "idle", till |-> None, pass |-> 0,
     opts |-> FetchOptions(FALSE, None), remaining |-> 0,
     change_number |-> -1, resp |-> None, idx |-> 0,
     fu_segs |-> {}, at_segs |-> {}, sy_segs |-> {},
     ret_cn |-> -1, ok |-> FALSE, result |-> None, exc |-> None]

NoHistory(st) ==
    [passes |-> <<>>, fetches |-> 0, nConv |-> 0, lastResp |-> None,
     snap |-> st, pre |-> {}, apiExc |-> None, wrote |-> None]

NewPass(opts) ==
    [opts |-> opts, nFU |-> 0, sleeps |-> <<>>, nMet |-> 0,
     result |-> "running", cn |-> -1]

\* recorded for each attempt: its change number is not below the till asked for
ReachedTill(till, cn) == till = None \/ ~(cn < till[1])

\* the record of the pass that is running
CurPass(h) == h.passes[Len(h.passes)]

SetCurPass(h, p) == [h EXCEPT !.passes[Len(h.passes)] = p]

Returned(t) == th[t].pc \in {"done", "raised"}

(***************************************************************************)
(* synchronize_splits(till): lines 122-125.                                *)
(***************************************************************************)
SynchronizeSplits(t, till) ==
    /\ UNCHANGED <<impVars, hostVars>>
    /\ th[t].pc \in {"idle", "done", "raised"}
    /\ th' = [th EXCEPT ![t] =
                [IdleThread EXCEPT !.pc = "attempt_start", !.till = till,
                                   !.pass = 1,
                                   !.opts = PlainOptions]]
    /\ hist' = [hist EXCEPT ![t] = NoHistory(storage)]
    /\ UNCHANGED <<storage, backoff>>

\* (mutant) the pass starts without resetting the backoff
AttemptStartNoReset(t) ==
    /\ UNCHANGED <<impVars, hostVars>>
    /\ th[t].pc = "attempt_start"
    /\ th' = [th EXCEPT ![t].pc = "attempt_iter",
                        ![t].at_segs = {},
                        ![t].remaining = ON_DEMAND_FETCH_BACKOFF_MAX_RETRIES]
    /\ hist' = [hist EXCEPT ![t].passes = Append(@, NewPass(th[t].opts))]
    /\ UNCHANGED <<storage, backoff>>

(***************************************************************************)
(* _attempt_split_sync: lines 101-103.                                     *)
(***************************************************************************)
AttemptStart(t) ==
    /\ UNCHANGED <<impVars, hostVars>>
    /\ th[t].pc = "attempt_start"
    /\ backoff' = [backoff EXCEPT !.attempt = BackoffReset]
    /\ th' = [th EXCEPT ![t].pc = "attempt_iter",
                        ![t].at_segs = {},
                        ![t].remaining = ON_DEMAND_FETCH_BACKOFF_MAX_RETRIES]
    /\ hist' = [hist EXCEPT ![t].passes = Append(@, NewPass(th[t].opts))]
    /\ UNCHANGED storage

(***************************************************************************)
(* _attempt_split_sync: lines 105-106, and _fetch_until's line 61.         *)
(***************************************************************************)
AttemptIter(t) ==
    /\ UNCHANGED <<impVars, hostVars>>
    /\ th[t].pc = "attempt_iter"
    /\ th' = [th EXCEPT ![t].pc = "fu_loop",
                        ![t].remaining = @ - 1,
                        ![t].fu_segs = {}]
    /\ hist' = [hist EXCEPT ![t] =
                  [SetCurPass(hist[t],
                      [CurPass(hist[t]) EXCEPT !.nFU = @ + 1])
                     EXCEPT !.fetches = 0, !.nConv = 0, !.lastResp = None]]
    /\ UNCHANGED <<storage, backoff>>

\* (mutant) the change number is read once, before the loop, and not in
\* each iteration
FetchUntilReadOnce(t) ==
    /\ UNCHANGED <<impVars, hostVars>>
    /\ th[t].pc = "fu_loop"
    /\ LET cn == StorageChangeNumber(storage) IN
         IF TillBehind(th[t].till, cn)
         THEN th' = [th EXCEPT ![t].pc = "attempt_check", ![t].ret_cn = cn]
         ELSE th' = [th EXCEPT ![t].pc = "fu_fetch"]
    /\ UNCHANGED <<storage, backoff, hist>>

(***************************************************************************)
(* _fetch_until: lines 63-68.                                              *)
(***************************************************************************)
FetchUntilRead(t) ==
    /\ UNCHANGED <<impVars, hostVars>>
    /\ th[t].pc = "fu_loop"
    /\ LET cn == StorageChangeNumber(storage) IN
         IF TillBehind(th[t].till, cn)
         THEN th' = [th EXCEPT ![t].pc = "attempt_check", ![t].ret_cn = cn]
         ELSE th' = [th EXCEPT ![t].pc = "fu_fetch", ![t].change_number = cn]
    /\ UNCHANGED <<storage, backoff, hist>>

(***************************************************************************)
(* _fetch_until: lines 70-75, the fetch answers.                           *)
(***************************************************************************)
FetchOk(t, resp) ==
    /\ UNCHANGED <<impVars, hostVars>>
    /\ th[t].pc = "fu_fetch"
    /\ hist[t].fetches < MaxFetch
    /\ th' = [th EXCEPT ![t].pc = "fu_apply", ![t].resp = Some(resp),
                        ![t].idx = 1]
    /\ hist' = [hist EXCEPT
                  ![t].fetches = @ + 1,
                  ![t].nConv = IF resp.since = resp.till THEN @ + 1 ELSE @,
                  ![t].lastResp = Some([since |-> resp.since, till |-> resp.till]),
                  ![t].pre = storage.splits]
    /\ UNCHANGED <<storage, backoff>>

\* (mutant) the exception is swallowed and the attempt loop retries
FetchRaiseRetried(t, e) ==
    /\ UNCHANGED <<impVars, hostVars>>
    /\ th[t].pc = "fu_fetch"
    /\ hist[t].fetches < MaxFetch
    /\ th' = [th EXCEPT ![t].pc = "attempt_check",
                        ![t].ret_cn = th[t].change_number]
    /\ hist' = [hist EXCEPT ![t].fetches = @ + 1, ![t].apiExc = Some(e)]
    /\ UNCHANGED <<storage, backoff>>

(***************************************************************************)
(* _fetch_until: lines 70-75, the fetch raises APIException.               *)
(***************************************************************************)
FetchRaise(t, e) ==
    /\ UNCHANGED <<impVars, hostVars>>
    /\ th[t].pc = "fu_fetch"
    /\ hist[t].fetches < MaxFetch
    /\ th' = [th EXCEPT ![t].pc = "raised", ![t].exc = Some(e)]
    /\ hist' = [hist EXCEPT ![t].fetches = @ + 1, ![t].apiExc = Some(e)]
    /\ UNCHANGED <<storage, backoff>>

(***************************************************************************)
(* _fetch_until: lines 77-83, one iteration of the loop over the splits.   *)
(***************************************************************************)
ApplyNext(t) ==
    /\ UNCHANGED <<impVars, hostVars>>
    /\ th[t].pc = "fu_apply"
    /\ ~SplitsApplied(th[t].resp[1], th[t].idx)
    /\ LET raw == th[t].resp[1].splits[NextSplit(th[t].idx)] IN
         /\ ~Raises(raw)
         /\ storage' = [storage EXCEPT !.splits = ApplySplit(@, raw)]
         /\ th' = [th EXCEPT ![t].idx = @ + 1,
                             ![t].fu_segs = @ \cup SplitSegments(raw)]
    /\ UNCHANGED <<backoff, hist>>

\* (mutant) the splits of the response applied so far are taken back
ApplyRaiseRolledBack(t) ==
    /\ UNCHANGED <<impVars, hostVars>>
    /\ th[t].pc = "fu_apply"
    /\ ~SplitsApplied(th[t].resp[1], th[t].idx)
    /\ Raises(th[t].resp[1].splits[NextSplit(th[t].idx)])
    /\ storage' = [storage EXCEPT !.splits = hist[t].pre]
    /\ th' = [th EXCEPT ![t].pc = "raised", ![t].exc = Some("KeyError")]
    /\ UNCHANGED <<backoff, hist>>

(***************************************************************************)
(* _fetch_until: lines 77-83, the split at hand raises.  Nothing catches   *)
(* the exception: it leaves _fetch_until, _attempt_split_sync and          *)
(* synchronize_splits.                                                     *)
(***************************************************************************)
ApplyRaise(t) ==
    /\ UNCHANGED <<impVars, hostVars>>
    /\ th[t].pc = "fu_apply"
    /\ ~SplitsApplied(th[t].resp[1], th[t].idx)
    /\ Raises(th[t].resp[1].splits[NextSplit(th[t].idx)])
    /\ th' = [th EXCEPT ![t].pc = "raised", ![t].exc = Some("KeyError")]
    /\ UNCHANGED <<storage, backoff, hist>>

\* the largest till a call has passed to set_change_number, this one
\* included
LargestWritten(wrote, till) ==
    IF wrote = None \/ wrote[1] < till THEN till ELSE wrote[1]

\* (mutant) the loop of _fetch_until goes on after a response whose since
\* is its till
SetChangeNumberNoReturn(t) ==
    /\ UNCHANGED <<impVars, hostVars>>
    /\ th[t].pc = "fu_apply"
    /\ SplitsApplied(th[t].resp[1], th[t].idx)
    /\ storage' = [storage EXCEPT !.cn = Some(th[t].resp[1].till)]
    /\ th' = [th EXCEPT ![t].pc = "fu_loop",
                        ![t].resp = None, ![t].idx = 0,
                        ![t].change_number = -1]
    /\ hist' = [hist EXCEPT ![t].snap = storage', ![t].pre = {},
                            ![t].wrote = Some(LargestWritten(@, th[t].resp[1].till))]
    /\ UNCHANGED backoff

(***************************************************************************)
(* _fetch_until: lines 84-86.                                              *)
(***************************************************************************)
SetChangeNumber(t) ==
    /\ UNCHANGED <<impVars, hostVars>>
    /\ th[t].pc = "fu_apply"
    /\ SplitsApplied(th[t].resp[1], th[t].idx)
    /\ storage' = [storage EXCEPT !.cn = Some(th[t].resp[1].till)]
    /\ IF Converged(th[t].resp[1])
       THEN th' = [th EXCEPT ![t].pc = "attempt_check",
                             ![t].ret_cn = th[t].resp[1].till,
                             ![t].resp = None, ![t].idx = 0,
                             ![t].change_number = -1]
       ELSE th' = [th EXCEPT ![t].pc = "fu_loop",
                             ![t].resp = None, ![t].idx = 0,
                             ![t].change_number = -1]
    /\ hist' = [hist EXCEPT ![t].snap = storage', ![t].pre = {},
                            ![t].wrote = Some(LargestWritten(@, th[t].resp[1].till))]
    /\ UNCHANGED backoff

(***************************************************************************)
(* _attempt_split_sync: lines 107-111.                                     *)
(***************************************************************************)
AttemptCheck(t) ==
    /\ UNCHANGED <<impVars, hostVars>>
    /\ th[t].pc = "attempt_check"
    /\ LET segs == th[t].at_segs \cup th[t].fu_segs
           met  == ReachedTill(th[t].till, th[t].ret_cn)
           p    == [CurPass(hist[t]) EXCEPT
                      !.nMet = IF met THEN @ + 1 ELSE @,
                      !.cn = th[t].ret_cn]
       IN
         IF SyncComplete(th[t].till, th[t].ret_cn)
         THEN /\ th' = [th EXCEPT ![t].pc = "pass_done", ![t].ok = TRUE,
                                  ![t].at_segs = segs, ![t].fu_segs = {}]
              /\ hist' = [hist EXCEPT ![t] =
                            SetCurPass(hist[t], [p EXCEPT !.result = "ok"])]
         ELSE IF AttemptsExhausted(th[t].remaining)
         THEN /\ th' = [th EXCEPT ![t].pc = "pass_done", ![t].ok = FALSE,
                                  ![t].at_segs = segs, ![t].fu_segs = {}]
              /\ hist' = [hist EXCEPT ![t] =
                            SetCurPass(hist[t], [p EXCEPT !.result = "fail"])]
         ELSE /\ th' = [th EXCEPT ![t].pc = "attempt_sleep",
                                  ![t].at_segs = segs, ![t].fu_segs = {}]
              /\ hist' = [hist EXCEPT ![t] = SetCurPass(hist[t], p)]
    /\ UNCHANGED <<storage, backoff>>

(***************************************************************************)
(* _attempt_split_sync: lines 112-113.                                     *)
(***************************************************************************)
Sleep(t) ==
    /\ UNCHANGED <<impVars, hostVars>>
    /\ th[t].pc = "attempt_sleep"
    /\ LET how_long == BackoffGet(ON_DEMAND_FETCH_BACKOFF_BASE,
                                  ON_DEMAND_FETCH_BACKOFF_MAX_WAIT,
                                  backoff.attempt)
       IN hist' = [hist EXCEPT ![t] =
                     SetCurPass(hist[t],
                        [CurPass(hist[t]) EXCEPT
                           !.sleeps = Append(@, how_long)])]
    /\ backoff' = [backoff EXCEPT !.attempt = @ + 1]
    /\ th' = [th EXCEPT ![t].pc = "attempt_iter"]
    /\ UNCHANGED storage

(***************************************************************************)
(* synchronize_splits: lines 126-141, after a pass has returned.           *)
(***************************************************************************)
PassDone(t) ==
    /\ UNCHANGED <<impVars, hostVars>>
    /\ th[t].pc = "pass_done"
    /\ LET segs == th[t].sy_segs \cup th[t].at_segs IN
         IF th[t].ok
         THEN th' = [th EXCEPT ![t].pc = "done", ![t].sy_segs = segs,
                               ![t].at_segs = {}, ![t].result = Some(segs)]
         ELSE IF th[t].pass = 1
         THEN th' = [th EXCEPT ![t].pc = "attempt_start", ![t].pass = 2,
                               ![t].sy_segs = segs, ![t].at_segs = {},
                               ![t].opts = BypassOptions(th[t].ret_cn)]
         ELSE th' = [th EXCEPT ![t].pc = "done", ![t].sy_segs = segs,
                               ![t].at_segs = {}, ![t].result = None]
    /\ UNCHANGED <<storage, backoff, hist>>

(***************************************************************************)
(* The impression pipeline: Hasher, Observer (an LRU cache of the time a   *)
(* fingerprint was recorded), Counter, the three strategies and the        *)
(* Manager.  The classes are pinned down by tests/engine/                  *)
(* test_impressions.py; what the tests leave open follows the design       *)
(* document.                                                               *)
(***************************************************************************)
\* one hour in milliseconds, the width of a counter timeframe
TIME_INTERVAL_MS == 3600000

\* capacity of the observer's cache (Observer(size))
ObserverSize == 2

\* pairs handed to one process_impressions call
MaxBatch == 2

\* impressions handled in one run
MaxImps == 3

OPTIMIZED == "OPTIMIZED"
DEBUG == "DEBUG"
NONE == "NONE"
ImpressionsMode == {OPTIMIZED, DEBUG, NONE}

Impression(key, feature, time) ==
    [matching_key |-> key, feature_name |-> feature, treatment |-> "on",
     label |-> "l1", change_number |-> 123, bucketing_key |-> None,
     time |-> time, previous_time |-> None]

\* the evaluations of the manager tests: (matching key, feature)
Evaluations == {<<"k1", "f1">>, <<"k1", "f2">>, <<"k2", "f1">>}

\* two instants of one hour and one of the next
ImpressionTimes == {1, 2, TIME_INTERVAL_MS + 1}

\* the attributes a caller passes along with an impression of the key
AttributesOf(key) == IF key = "k2" THEN Some("attrs") ELSE None

InputPairs ==
    { <<Impression(e[1], e[2], t), AttributesOf(e[1])>> :
        e \in Evaluations, t \in ImpressionTimes }

\* Hasher.process: the hash of the five identifying fields, taken to be
\* free of collisions; time and previous_time are no part of it
HasherProcess(imp) ==
    <<imp.matching_key, imp.feature_name, imp.treatment, imp.label,
      imp.change_number>>

\* truncate_time: the start of the hour the timestamp falls in
TruncateTime(timestamp_ms) == timestamp_ms - (timestamp_ms % TIME_INTERVAL_MS)

\* the mutant of LruTestAndSet: a hit does not make the key the most
\* recently used one
LruTestAndSetNoBubble(cache, size, key, value) ==
    LET hit == { i \in 1..Len(cache) : cache[i].key = key }
        added == Append(cache, [key |-> key, value |-> value])
    IN  IF hit /= {}
        THEN [previous |-> Some(cache[CHOOSE i \in hit : TRUE].value),
              cache |-> cache]
        ELSE [previous |-> None,
              cache |-> IF Len(added) > size THEN Tail(added) ELSE added]

\* The cache is a sequence of nodes, the least recently used first.
\* test_and_set returns the value held for the key (None when absent) and
\* makes the key the most recently used one; a key already held keeps its
\* value (the tests' third sighting of k1/f1 reports the time of the first),
\* a new key is stored and the least recently used node dropped on overflow.
LruTestAndSet(cache, size, key, value) ==
    LET hit == { i \in 1..Len(cache) : cache[i].key = key }
        node == IF hit = {} THEN [key |-> key, value |-> value]
                ELSE cache[CHOOSE i \in hit : TRUE]
        bubbled == Append(SelectSeq(cache, LAMBDA n : n.key /= key), node)
    IN  [previous |-> IF hit = {} THEN None ELSE Some(node.value),
         cache |-> IF Len(bubbled) > size THEN Tail(bubbled) ELSE bubbled]

\* Observer.test_and_set: the impression with previous_time filled in
ObserverTestAndSet(cache, size, imp) ==
    LET r == LruTestAndSet(cache, size, HasherProcess(imp), imp.time)
    IN  [impression |-> IF r.previous = None THEN imp
                        ELSE [imp EXCEPT !.previous_time = r.previous],
         cache |-> r.cache]

RECURSIVE ObserveAll(_, _, _)
\* [(observer.test_and_set(imp), attrs) for imp, attrs in impressions]
ObserveAll(cache, size, pairs) ==
    IF pairs = <<>> THEN [imps |-> <<>>, cache |-> cache]
    ELSE LET first == ObserverTestAndSet(cache, size, pairs[1][1])
             rest == ObserveAll(first.cache, size, Tail(pairs))
         IN  [imps |-> <<<<first.impression, pairs[1][2]>>>> \o rest.imps,
              cache |-> rest.cache]

\* the impressions of a list of (impression, attributes) pairs
Impressions(pairs) == [i \in 1..Len(pairs) |-> pairs[i][1]]

CounterKey(imp) ==
    [feature |-> imp.feature_name, timeframe |-> TruncateTime(imp.time)]

RECURSIVE CounterTrack(_, _)
\* Counter.track: one more for the (feature, timeframe) of each impression
CounterTrack(data, imps) ==
    IF imps = <<>> THEN data
    ELSE LET k == CounterKey(imps[1])
         IN  CounterTrack(IF k \in DOMAIN data THEN [data EXCEPT ![k] = @ + 1]
                          ELSE data @@ (k :> 1),
                          Tail(imps))

\* what Counter.pop_all returns
CountPerFeature(data) ==
    { [feature |-> k.feature, timeframe |-> k.timeframe, count |-> data[k]] :
        k \in DOMAIN data }

RECURSIVE UniqueKeysTrackLast(_, _)
\* the mutant of UniqueKeysTrack: the key replaces the feature's keys
UniqueKeysTrackLast(mtk, imps) ==
    IF imps = <<>> THEN mtk
    ELSE LET f == imps[1].feature_name
             k == imps[1].matching_key
         IN  UniqueKeysTrackLast(IF f \in DOMAIN mtk
                                 THEN [mtk EXCEPT ![f] = {k}]
                                 ELSE mtk @@ (f :> {k}),
                                 Tail(imps))

RECURSIVE UniqueKeysTrack(_, _)
\* UniqueKeysTracker.track(feature, key) for each impression
UniqueKeysTrack(mtk, imps) ==
    IF imps = <<>> THEN mtk
    ELSE LET f == imps[1].feature_name
             k == imps[1].matching_key
         IN  UniqueKeysTrack(IF f \in DOMAIN mtk
                             THEN [mtk EXCEPT ![f] = @ \cup {k}]
                             ELSE mtk @@ (f :> {k}),
                             Tail(imps))

\* the mutant of InEarlierHour: the times compared without truncation
InEarlierTime(imp) ==
    imp.previous_time = None \/ imp.previous_time[1] < imp.time

\* the deduplication criterion of the optimized mode
InEarlierHour(imp) ==
    \/ imp.previous_time = None
    \/ TruncateTime(imp.previous_time[1]) < TruncateTime(imp.time)

\* the mutant of StrategyOptimizedMode: only what is sent is counted
StrategyOptimizedModeCountSent(cache, data, mtk, pairs) ==
    LET o == ObserveAll(cache, ObserverSize, pairs)
        sent == SelectSeq(Impressions(o.imps), InEarlierHour)
    IN  [for_log |-> sent, for_listener |-> o.imps, observer |-> o.cache,
         counter |-> CounterTrack(data, sent), unique_keys |-> mtk]

\* StrategyOptimizedMode.process_impressions
StrategyOptimizedMode(cache, data, mtk, pairs) ==
    LET o == ObserveAll(cache, ObserverSize, pairs)
    IN  [for_log |-> SelectSeq(Impressions(o.imps), InEarlierHour),
         for_listener |-> o.imps, observer |-> o.cache,
         counter |-> CounterTrack(data, Impressions(o.imps)),
         unique_keys |-> mtk]

\* StrategyDebugMode.process_impressions
StrategyDebugMode(cache, data, mtk, pairs) ==
    LET o == ObserveAll(cache, ObserverSize, pairs)
    IN  [for_log |-> Impressions(o.imps), for_listener |-> o.imps,
         observer |-> o.cache, counter |-> data, unique_keys |-> mtk]

\* the mutant of StrategyNoneMode: the impressions pass an observer
StrategyNoneModeObserved(cache, data, mtk, pairs) ==
    LET o == ObserveAll(cache, ObserverSize, pairs)
    IN  [for_log |-> <<>>, for_listener |-> o.imps, observer |-> o.cache,
         counter |-> CounterTrack(data, Impressions(pairs)),
         unique_keys |-> UniqueKeysTrack(mtk, Impressions(pairs))]

\* StrategyNoneMode.process_impressions: no observer, nothing to send
StrategyNoneMode(cache, data, mtk, pairs) ==
    [for_log |-> <<>>, for_listener |-> pairs, observer |-> cache,
     counter |-> CounterTrack(data, Impressions(pairs)),
     unique_keys |-> UniqueKeysTrack(mtk, Impressions(pairs))]

\* the strategy the manager was built with
Strategy(mode, cache, data, mtk, pairs) ==
    CASE mode = OPTIMIZED -> StrategyOptimizedMode(cache, data, mtk, pairs)
      [] mode = DEBUG -> StrategyDebugMode(cache, data, mtk, pairs)
      [] mode = NONE -> StrategyNoneMode(cache, data, mtk, pairs)

\* nothing tracked
NoData == [k \in {} |-> 0]

\* what the last call returned and logged
NoOutput ==
    [op |-> "none", input |-> <<>>, for_log |-> <<>>, observed |-> <<>>,
     logged |-> <<>>, popped |-> {}]

\* the record of a run: impressions handled, impressions handled since the
\* counter was popped, the evaluations met so far, which inputs of the
\* last call were first sightings, how often an evaluation was sent
\* with a time of an hour (counted up to 2), the time of the latest
\* sighting of each evaluation, for each input of the last call the time
\* of the sighting before it, the inputs per feature and hour since the
\* counter was popped, and the (feature, key) pairs since the unique keys
\* were popped
NothingSeen ==
    [processed |-> 0, sincePop |-> 0, met |-> {}, fresh |-> <<>>,
     sent |-> [k \in {} |-> 0], last |-> [k \in {} |-> 0], before |-> <<>>,
     tally |-> [k \in {} |-> 0], keys |-> {}]

\* the evaluation and hour of an impression, by its fields
SentKey(imp) ==
    <<imp.matching_key, imp.feature_name, imp.time \div TIME_INTERVAL_MS>>

RECURSIVE CountSent(_, _)
CountSent(sent, imps) ==
    IF imps = <<>> THEN sent
    ELSE LET k == SentKey(imps[1])
         IN  CountSent(IF k \in DOMAIN sent
                       THEN [sent EXCEPT ![k] = Min(@ + 1, 2)]
                       ELSE sent @@ (k :> 1),
                       Tail(imps))

\* input i is the first sighting of its evaluation
FirstSighting(met, pairs, i) ==
    LET e == <<pairs[i][1].matching_key, pairs[i][1].feature_name>>
    IN  /\ e \notin met
        /\ \A j \in 1..(i - 1) :
              <<pairs[j][1].matching_key, pairs[j][1].feature_name>> /= e

\* the evaluation of the impression of a pair
EvaluationOf(pair) == <<pair[1].matching_key, pair[1].feature_name>>

\* the time of the sighting of input i's evaluation before input i
SightingBefore(last, pairs, i) ==
    LET e == EvaluationOf(pairs[i])
        earlier == { j \in 1..(i - 1) : EvaluationOf(pairs[j]) = e }
    IN  IF earlier /= {}
        THEN Some(pairs[CHOOSE j \in earlier : \A k \in earlier : k <= j][1].time)
        ELSE IF e \in DOMAIN last THEN Some(last[e]) ELSE None

RECURSIVE LastSightings(_, _)
LastSightings(last, pairs) ==
    IF pairs = <<>> THEN last
    ELSE LET e == EvaluationOf(pairs[1])
         IN  LastSightings(IF e \in DOMAIN last
                           THEN [last EXCEPT ![e] = pairs[1][1].time]
                           ELSE last @@ (e :> pairs[1][1].time),
                           Tail(pairs))

RECURSIVE Tally(_, _)
Tally(tally, pairs) ==
    IF pairs = <<>> THEN tally
    ELSE LET k == <<pairs[1][1].feature_name,
                    pairs[1][1].time \div TIME_INTERVAL_MS>>
         IN  Tally(IF k \in DOMAIN tally THEN [tally EXCEPT ![k] = @ + 1]
                   ELSE tally @@ (k :> 1),
                   Tail(pairs))

\* the mutant of LogImpressions: only what is returned is logged
LogImpressionsSent(listener, for_log, for_listener) ==
    IF listener THEN [i \in 1..Len(for_log) |-> <<for_log[i], None>>] ELSE <<>>

\* the calls of listener.log_impression(impression, attributes) the manager
\* makes: one for each pair the strategy hands on, when it has a listener
LogImpressions(listener, for_log, for_listener) ==
    IF listener THEN for_listener ELSE <<>>

\* Manager.process_impressions: the strategy, then the listener once per
\* pair the strategy hands on; the strategy's list is returned
ProcessImpressions(pairs) ==
    /\ UNCHANGED <<syncVars, hostVars>>
    /\ seen.processed + Len(pairs) <= MaxImps
    /\ LET r == Strategy(manager.mode, observer, counter, unique_keys, pairs)
       IN  /\ observer' = r.observer
           /\ counter' = r.counter
           /\ unique_keys' = r.unique_keys
           /\ out' = [op |-> "process_impressions",
                      input |-> pairs, for_log |-> r.for_log,
                      observed |-> r.for_listener,
                      logged |-> LogImpressions(manager.listener, r.for_log,
                                                r.for_listener),
                      popped |-> {}]
           /\ seen' = [processed |-> seen.processed + Len(pairs),
                       sincePop |-> seen.sincePop + Len(pairs),
                       met |-> seen.met \cup
                                 { <<pairs[i][1].matching_key,
                                     pairs[i][1].feature_name>> :
                                     i \in 1..Len(pairs) },
                       fresh |-> [i \in 1..Len(pairs) |->
                                    FirstSighting(seen.met, pairs, i)],
                       sent |-> CountSent(seen.sent, r.for_log),
                       last |-> LastSightings(seen.last, pairs),
                       before |-> [i \in 1..Len(pairs) |->
                                     SightingBefore(seen.last, pairs, i)],
                       tally |-> Tally(seen.tally, pairs),
                       keys |-> seen.keys \cup
                                  { <<pairs[i][1].feature_name,
                                      pairs[i][1].matching_key>> :
                                      i \in 1..Len(pairs) }]
    /\ UNCHANGED <<manager, calls>>

\* the mutant of CounterPopAll: the counts are handed out and kept
CounterPopAllKeep ==
    /\ UNCHANGED <<syncVars, hostVars>>
    /\ out' = [NoOutput EXCEPT !.op = "pop_all",
                                !.popped = CountPerFeature(counter)]
    /\ seen' = [seen EXCEPT !.sincePop = 0, !.fresh = <<>>, !.before = <<>>,
                            !.tally = [k \in {} |-> 0]]
    /\ UNCHANGED <<manager, observer, counter, unique_keys, calls>>

\* Counter.pop_all: the counts are handed out and the counter is empty
CounterPopAll ==
    /\ UNCHANGED <<syncVars, hostVars>>
    /\ out' = [NoOutput EXCEPT !.op = "pop_all",
                                !.popped = CountPerFeature(counter)]
    /\ counter' = NoData
    /\ seen' = [seen EXCEPT !.sincePop = 0, !.fresh = <<>>, !.before = <<>>,
                            !.tally = [k \in {} |-> 0]]
    /\ UNCHANGED <<manager, observer, unique_keys, calls>>

\* UniqueKeysTracker.pop_all: the keys are handed out and the tracker is
\* empty
UniqueKeysPopAll ==
    /\ UNCHANGED <<syncVars, hostVars>>
    /\ out' = [NoOutput EXCEPT !.op = "mtk_pop_all", !.popped = unique_keys]
    /\ unique_keys' = NoData
    /\ seen' = [seen EXCEPT !.fresh = <<>>, !.before = <<>>, !.keys = {}]
    /\ UNCHANGED <<manager, observer, counter, calls>>

\* the lists of pairs a caller may still hand to process_impressions
Batches(inputs) == BSeq(inputs, Min(MaxBatch, MaxImps - seen.processed))

\* a manager that has handled nothing
InitImpressions(modes, listeners) ==
    /\ manager \in {[mode |-> m, listener |-> l] : m \in modes, l \in listeners}
    /\ observer = <<>>
    /\ counter = NoData
    /\ unique_keys = NoData
    /\ out = NoOutput
    /\ seen = NothingSeen
    /\ calls = <<>>
    /\ shutdown = FALSE
    /\ auth = NoAuth
    /\ local = NoLocal

(***************************************************************************)
(* One synchronizer, one caller, the service answering.                    *)
(***************************************************************************)
\* the one thread that calls synchronize_splits
Callers == {1}

Init ==
    /\ storage \in {[cn |-> c, splits |-> {}] : c \in {None, Some(-1)}}
    /\ backoff = [attempt |-> 0]
    /\ th = [t \in Callers |-> IdleThread]
    /\ hist = [t \in Callers |-> NoHistory(storage)]
    /\ InitImpressions({OPTIMIZED}, {FALSE})

Next ==
    \E t \in Callers :
        \/ \E till \in Tills : SynchronizeSplits(t, till)
        \/ AttemptStart(t)
        \/ AttemptIter(t)
        \/ FetchUntilRead(t)
        \/ \E resp \in ServerResponses(th[t].change_number) : FetchOk(t, resp)
        \/ \E e \in ApiErrors : FetchRaise(t, e)
        \/ ApplyNext(t)
        \/ SetChangeNumber(t)
        \/ AttemptCheck(t)
        \/ Sleep(t)
        \/ PassDone(t)

Spec == Init /\ [][Next]_vars

(***************************************************************************)
(* The host shuts down while synchronize_splits calls are under way.  The  *)
(* synchronizer has no means to be told: time.sleep(how_long) cannot be    *)
(* interrupted and no step of the calls reads the request.                 *)
(***************************************************************************)
\* the host asks for the shutdown
RequestShutdown ==
    /\ ~shutdown
    /\ shutdown' = TRUE
    /\ UNCHANGED <<syncVars, impVars, local, auth>>

NextShutdown ==
    \/ RequestShutdown
    \/ \E t \in Callers :
        \/ \E till \in Tills : SynchronizeSplits(t, till)
        \/ AttemptStart(t)
        \/ AttemptIter(t)
        \/ FetchUntilRead(t)
        \/ \E resp \in ServerResponses(th[t].change_number) : FetchOk(t, resp)
        \/ \E e \in ApiErrors : FetchRaise(t, e)
        \/ ApplyNext(t)
        \/ SetChangeNumber(t)
        \/ AttemptCheck(t)
        \/ Sleep(t)
        \/ PassDone(t)

SpecShutdown == Init /\ [][NextShutdown]_vars

(***************************************************************************)
(* Calls that run to their end.  The service answers a request for the     *)
(* changes since cn with its latest snapshot or with no change, so that a  *)
(* response with since = till comes after finitely many fetches; the       *)
(* thread of a call is scheduled again and again, a sleep ends, and a      *)
(* fetch is answered or raises.                                            *)
(***************************************************************************)
\* the answers to a request for the changes since cn: all changes up to
\* the latest snapshot, or none
LiveResponses(cn) ==
    { r \in ServerResponses(cn) : r.till \in {cn, MaxCN} }

\* a step of the call of thread t
CallStep(t) ==
    \/ AttemptStart(t)
    \/ AttemptIter(t)
    \/ FetchUntilRead(t)
    \/ \E resp \in LiveResponses(th[t].change_number) : FetchOk(t, resp)
    \/ \E e \in ApiErrors : FetchRaise(t, e)
    \/ ApplyNext(t)
    \/ SetChangeNumber(t)
    \/ AttemptCheck(t)
    \/ Sleep(t)
    \/ PassDone(t)

NextLive ==
    \E t \in Callers :
        \/ \E till \in Tills : SynchronizeSplits(t, till)
        \/ AttemptStart(t)
        \/ AttemptIter(t)
        \/ FetchUntilRead(t)
        \/ \E resp \in LiveResponses(th[t].change_number) : FetchOk(t, resp)
        \/ \E e \in ApiErrors : FetchRaise(t, e)
        \/ ApplyNext(t)
        \/ SetChangeNumber(t)
        \/ AttemptCheck(t)
        \/ Sleep(t)
        \/ PassDone(t)

SpecLive ==
    Init /\ [][NextLive]_vars /\ \A t \in Callers : WF_vars(CallStep(t))

(***************************************************************************)
(* Calls without till, the fetch API answering with any response its       *)
(* contract allows.  Such a call never sleeps (a pass with till = None     *)
(* succeeds at its first attempt), so Sleep is no step of it.              *)
(***************************************************************************)
NextNoTill ==
    \E t \in Callers :
        \/ SynchronizeSplits(t, None)
        \/ AttemptStart(t)
        \/ AttemptIter(t)
        \/ FetchUntilRead(t)
        \/ \E resp \in ApiResponses(RawSplits, MaxApply) : FetchOk(t, resp)
        \/ \E e \in ApiErrors : FetchRaise(t, e)
        \/ ApplyNext(t)
        \/ SetChangeNumber(t)
        \/ AttemptCheck(t)
        \/ PassDone(t)

SpecNoTill == Init /\ [][NextNoTill]_vars

(***************************************************************************)
(* Calls without till, the service answering with responses that may hold  *)
(* splits the loop of _fetch_until cannot apply.                           *)
(***************************************************************************)
\* splits that raise when applied: one without status, an archived one
\* without name, and an ACTIVE one that splits.from_raw rejects
RawSplitsBroken ==
    { [name |-> "C", segs |-> {}],
      [status |-> ARCHIVED, segs |-> {}],
      [name |-> "C", status |-> ACTIVE] }

\* the answers to a request for the changes since cn
BrokenResponses(cn) ==
    { [since |-> cn, till |-> t, splits |-> l] :
        t \in {c \in CNs : c >= cn},
        l \in BSeq(RawSplitsA \cup RawSplitsBroken, MaxApply) }

NextPartial ==
    \E t \in Callers :
        \/ SynchronizeSplits(t, None)
        \/ AttemptStart(t)
        \/ AttemptIter(t)
        \/ FetchUntilRead(t)
        \/ \E resp \in BrokenResponses(th[t].change_number) : FetchOk(t, resp)
        \/ \E e \in ApiErrors : FetchRaise(t, e)
        \/ ApplyNext(t)
        \/ ApplyRaise(t)
        \/ SetChangeNumber(t)
        \/ AttemptCheck(t)
        \/ PassDone(t)

SpecPartial == Init /\ [][NextPartial]_vars

(***************************************************************************)
(* Two synchronize_splits calls at once on one storage, the periodic one   *)
(* and one more, each of them made once.  The service answers a request    *)
(* with since = the change number asked for and never with a till below    *)
(* one it has answered before.                                             *)
(***************************************************************************)
\* threads that call synchronize_splits at once
MaxSyncers == 2

Syncers == 1..MaxSyncers

\* the largest till among the last answers the threads ts have got
RECURSIVE LatestServed(_)
LatestServed(ts) ==
    IF ts = {} THEN -1
    ELSE LET t == CHOOSE x \in ts : TRUE
             rest == LatestServed(ts \ {t})
         IN  IF hist[t].lastResp /= None /\ hist[t].lastResp[1].till > rest
             THEN hist[t].lastResp[1].till ELSE rest

InitConcurrent ==
    /\ storage = [cn |-> None, splits |-> {}]
    /\ backoff = [attempt |-> 0]
    /\ th = [t \in Syncers |-> IdleThread]
    /\ hist = [t \in Syncers |-> NoHistory(storage)]
    /\ InitImpressions({OPTIMIZED}, {FALSE})

NextConcurrent ==
    \E t \in Syncers :
        \/ th[t].pc = "idle" /\ SynchronizeSplits(t, None)
        \/ AttemptStart(t)
        \/ AttemptIter(t)
        \/ FetchUntilRead(t)
        \/ \E resp \in ApiResponses(RawSplitsA, MaxSplits) :
              /\ resp.since = th[t].change_number
              /\ resp.till >= LatestServed(Syncers)
              /\ FetchOk(t, resp)
        \/ ApplyNext(t)
        \/ SetChangeNumber(t)
        \/ AttemptCheck(t)
        \/ PassDone(t)

SpecConcurrent == InitConcurrent /\ [][NextConcurrent]_vars

(***************************************************************************)
(* Two synchronize_splits calls at once on one synchronizer, and so on     *)
(* its one Backoff: a call with a till the service does not reach, which   *)
(* sleeps between its attempts, and a call without till.  The service has  *)
(* no changes.                                                             *)
(***************************************************************************)
\* the answer of a service that has no changes since cn
NoChange(cn) == [since |-> cn, till |-> cn, splits |-> <<>>]

InitSharedBackoff ==
    /\ storage = [cn |-> Some(-1), splits |-> {}]
    /\ backoff = [attempt |-> 0]
    /\ th = [t \in Syncers |-> IdleThread]
    /\ hist = [t \in Syncers |-> NoHistory(storage)]
    /\ InitImpressions({OPTIMIZED}, {FALSE})

NextSharedBackoff ==
    \/ th[1].pc = "idle" /\ SynchronizeSplits(1, Some(MaxCN + 1))
    \/ th[2].pc = "idle" /\ SynchronizeSplits(2, None)
    \/ \E t \in Syncers :
        \/ AttemptStart(t)
        \/ AttemptIter(t)
        \/ FetchUntilRead(t)
        \/ FetchOk(t, NoChange(th[t].change_number))
        \/ SetChangeNumber(t)
        \/ AttemptCheck(t)
        \/ Sleep(t)
        \/ PassDone(t)

SpecSharedBackoff == InitSharedBackoff /\ [][NextSharedBackoff]_vars

(***************************************************************************)
(* One impressions manager in optimized mode, with a listener; the         *)
(* synchronizer rests.                                                     *)
(***************************************************************************)
InitOptimized ==
    /\ storage = [cn |-> None, splits |-> {}]
    /\ backoff = [attempt |-> 0]
    /\ th = [t \in Callers |-> IdleThread]
    /\ hist = [t \in Callers |-> NoHistory(storage)]
    /\ InitImpressions({OPTIMIZED}, {TRUE})

NextOptimized ==
    \/ \E pairs \in Batches(InputPairs) : ProcessImpressions(pairs)
    \/ CounterPopAll

SpecOptimized == InitOptimized /\ [][NextOptimized]_vars

(***************************************************************************)
(* One impressions manager with a listener, built with any of the three    *)
(* strategies.                                                             *)
(***************************************************************************)
InitManager ==
    /\ storage = [cn |-> None, splits |-> {}]
    /\ backoff = [attempt |-> 0]
    /\ th = [t \in Callers |-> IdleThread]
    /\ hist = [t \in Callers |-> NoHistory(storage)]
    /\ InitImpressions(ImpressionsMode, {TRUE})

\* the pairs handed to this manager: the evaluations at one instant of
\* each hour
ManagerPairs == { p \in InputPairs : p[1].time /= 1 }

NextManager ==
    \/ \E pairs \in Batches(ManagerPairs) : ProcessImpressions(pairs)
    \/ CounterPopAll
    \/ UniqueKeysPopAll

SpecManager == InitManager /\ [][NextManager]_vars

(***************************************************************************)
(* One observer, called directly as the observer test does.                *)
(***************************************************************************)
\* test_and_set calls of one run
MaxObserved == 4

\* an impression by all of its fields
ImpressionOf(key, feature, treatment, label, change_number, time) ==
    [matching_key |-> key, feature_name |-> feature, treatment |-> treatment,
     label |-> label, change_number |-> change_number,
     bucketing_key |-> None, time |-> time, previous_time |-> None]

\* the impressions of the hasher test, each differing from the first in
\* one field, at the two times of the observer test
ObservedImpressions ==
    { ImpressionOf(e[1], e[2], e[3], e[4], e[5], t) :
        e \in { <<"key1", "feature1", "on", "killed", 123>>,
                <<"key2", "feature1", "on", "killed", 123>>,
                <<"key1", "feature2", "on", "killed", 123>>,
                <<"key1", "feature1", "off", "killed", 123>>,
                <<"key1", "feature1", "on", "not killed", 123>>,
                <<"key1", "feature1", "on", "killed", 321>> },
        t \in {456, 457} }

\* observer.test_and_set(imp) on an Observer(ObserverSize); the calls so
\* far are recorded
TestAndSet(imp) ==
    /\ UNCHANGED <<syncVars, hostVars>>
    /\ Len(seen) < MaxObserved
    /\ LET r == ObserverTestAndSet(observer, ObserverSize, imp)
       IN  /\ observer' = r.cache
           /\ out' = [input |-> imp, result |-> r.impression]
    /\ seen' = Append(seen, imp)
    /\ UNCHANGED <<manager, counter, unique_keys, calls>>

InitObserver ==
    /\ storage = [cn |-> None, splits |-> {}]
    /\ backoff = [attempt |-> 0]
    /\ th = [t \in Callers |-> IdleThread]
    /\ hist = [t \in Callers |-> NoHistory(storage)]
    /\ manager = [mode |-> DEBUG, listener |-> FALSE]
    /\ observer = <<>>
    /\ counter = NoData
    /\ unique_keys = NoData
    /\ out = [input |-> None, result |-> None]
    /\ seen = <<>>
    /\ calls = <<>>
    /\ shutdown = FALSE
    /\ auth = NoAuth
    /\ local = NoLocal

NextObserver == \E imp \in ObservedImpressions : TestAndSet(imp)

SpecObserver == InitObserver /\ [][NextObserver]_vars

(***************************************************************************)
(* The counter and the unique-keys tracker, shared by several threads:     *)
(* track adds its impressions one atomic increment at a time, pop_all is   *)
(* one atomic snapshot-and-clear.                                          *)
(***************************************************************************)
\* threads that call the counter and the unique-keys tracker
MaxThreads == 2
\* impressions and keys tracked in one run
MaxTracked == 3

Threads == 1..MaxThreads

\* a thread outside of any call
IdleCall == [op |-> "idle", todo |-> <<>>, got |-> NoData]

\* the impressions the threads track
TrackedImpressions ==
    { Impression("k1", "f1", 2), Impression("k1", "f1", TIME_INTERVAL_MS + 1),
      Impression("k2", "f2", 2) }

\* the (feature, key) pairs the threads track
TrackedKeys == { <<"f1", "k1">>, <<"f1", "k2">>, <<"f2", "k1">> }

\* the counts of two collections, added up
AddCounts(f, g) ==
    [k \in DOMAIN f \cup DOMAIN g |->
        (IF k \in DOMAIN f THEN f[k] ELSE 0)
      + (IF k \in DOMAIN g THEN g[k] ELSE 0)]

\* the (feature, key) pairs a unique-keys collection holds, once each
KeysHeld(mtk) ==
    LET held == { fk \in TrackedKeys :
                    fk[1] \in DOMAIN mtk /\ fk[2] \in mtk[fk[1]] }
    IN  [fk \in held |-> 1]

\* nothing tracked and nothing reported so far
NothingTracked ==
    [n |-> 0, started |-> NoData, reported |-> NoData,
     keysTracked |-> NoData, keysReported |-> NoData]

\* thread t calls counter.track(imps)
CounterTrackCall(t, imps) ==
    /\ UNCHANGED <<syncVars, hostVars>>
    /\ calls[t].op = "idle"
    /\ imps /= <<>>
    /\ seen.n + Len(imps) <= MaxTracked
    /\ calls' = [calls EXCEPT ![t] = [op |-> "track", todo |-> imps,
                                      got |-> NoData]]
    /\ seen' = [seen EXCEPT !.n = @ + Len(imps),
                            !.started = CounterTrack(@, imps)]
    /\ UNCHANGED <<manager, observer, counter, unique_keys, out>>

\* thread t, in counter.track, adds one for its next impression; after
\* the last one the call returns
CounterIncrement(t) ==
    /\ UNCHANGED <<syncVars, hostVars>>
    /\ calls[t].op = "track"
    /\ counter' = CounterTrack(counter, <<Head(calls[t].todo)>>)
    /\ calls' = [calls EXCEPT ![t] =
                    IF Len(calls[t].todo) = 1 THEN IdleCall
                    ELSE [@ EXCEPT !.todo = Tail(@)]]
    /\ UNCHANGED <<manager, observer, unique_keys, out, seen>>

\* the mutant of CounterPopAllCall: the snapshot and the clearing are two
\* steps
CounterPopAllTorn(t) ==
    /\ UNCHANGED <<syncVars, hostVars>>
    /\ \/ /\ calls[t].op = "idle"
          /\ calls' = [calls EXCEPT ![t] = [op |-> "pop_all", todo |-> <<>>,
                                            got |-> counter]]
          /\ UNCHANGED <<counter, out, seen>>
       \/ /\ calls[t].op = "pop_all"
          /\ counter' = NoData
          /\ out' = [NoOutput EXCEPT !.op = "pop_all",
                                     !.popped = CountPerFeature(calls[t].got)]
          /\ seen' = [seen EXCEPT !.reported = AddCounts(@, calls[t].got)]
          /\ calls' = [calls EXCEPT ![t] = IdleCall]
    /\ UNCHANGED <<manager, observer, unique_keys>>

\* thread t calls counter.pop_all(): the counts are returned and the
\* counter is empty, in one step
CounterPopAllCall(t) ==
    /\ UNCHANGED <<syncVars, hostVars>>
    /\ calls[t].op = "idle"
    /\ counter' = NoData
    /\ out' = [NoOutput EXCEPT !.op = "pop_all",
                               !.popped = CountPerFeature(counter)]
    /\ seen' = [seen EXCEPT !.reported = AddCounts(@, counter)]
    /\ UNCHANGED <<manager, observer, unique_keys, calls>>

\* thread t calls unique_keys_tracker.track(feature, key)
UniqueKeysTrackCall(t, fk) ==
    /\ UNCHANGED <<syncVars, hostVars>>
    /\ calls[t].op = "idle"
    /\ seen.n + 1 <= MaxTracked
    /\ unique_keys' = UniqueKeysTrack(unique_keys,
                                      <<Impression(fk[2], fk[1], 2)>>)
    /\ seen' = [seen EXCEPT !.n = @ + 1,
                            !.keysTracked = AddCounts(@, fk :> 1)]
    /\ UNCHANGED <<manager, observer, counter, out, calls>>

\* thread t calls unique_keys_tracker.pop_all()
UniqueKeysPopAllCall(t) ==
    /\ UNCHANGED <<syncVars, hostVars>>
    /\ calls[t].op = "idle"
    /\ unique_keys' = NoData
    /\ out' = [NoOutput EXCEPT !.op = "mtk_pop_all", !.popped = unique_keys]
    /\ seen' = [seen EXCEPT
                   !.keysReported = AddCounts(@, KeysHeld(unique_keys))]
    /\ UNCHANGED <<manager, observer, counter, calls>>

InitTrackers ==
    /\ storage = [cn |-> None, splits |-> {}]
    /\ backoff = [attempt |-> 0]
    /\ th = [t \in Callers |-> IdleThread]
    /\ hist = [t \in Callers |-> NoHistory(storage)]
    /\ manager = [mode |-> NONE, listener |-> FALSE]
    /\ observer = <<>>
    /\ counter = NoData
    /\ unique_keys = NoData
    /\ out = NoOutput
    /\ seen = NothingTracked
    /\ calls = [t \in Threads |-> IdleCall]
    /\ shutdown = FALSE
    /\ auth = NoAuth
    /\ local = NoLocal

NextTrackers ==
    \/ \E t \in Threads, imps \in BSeq(TrackedImpressions, MaxBatch) :
          CounterTrackCall(t, imps)
    \/ \E t \in Threads : CounterIncrement(t)
    \/ \E t \in Threads : CounterPopAllCall(t)
    \/ \E t \in Threads, fk \in TrackedKeys : UniqueKeysTrackCall(t, fk)
    \/ \E t \in Threads : UniqueKeysPopAllCall(t)

SpecTrackers == InitTrackers /\ [][NextTrackers]_vars

(***************************************************************************)
(* One observer shared by several threads, a mutex around test_and_set.    *)
(***************************************************************************)
\* threads that call the observer
MaxObservers == 3

ObserverThreads == 1..MaxObservers

\* the evaluations the threads report
ObservedEvaluations ==
    { <<"key1", "feature1", "on", "killed", 123>>,
      <<"key2", "feature1", "on", "killed", 123>> }

\* the test_and_set calls begun so far
CallsBegun ==
    Len(seen) + Cardinality({ t \in ObserverThreads : calls[t].op /= "idle" })

\* thread t calls observer.test_and_set with an impression of evaluation
\* e, made at a time of its own
TestAndSetCall(t, e) ==
    /\ UNCHANGED <<syncVars, hostVars>>
    /\ calls[t].op = "idle"
    /\ CallsBegun < MaxObserved
    /\ calls' = [calls EXCEPT ![t] =
                    [op |-> "waiting",
                     imp |-> Some(ImpressionOf(e[1], e[2], e[3], e[4], e[5],
                                               456 + CallsBegun))]]
    /\ UNCHANGED <<manager, observer, counter, unique_keys, out, seen>>

\* thread t takes the mutex of the observer
TestAndSetAcquire(t) ==
    /\ UNCHANGED <<syncVars, hostVars>>
    /\ calls[t].op = "waiting"
    /\ \A u \in ObserverThreads : calls[u].op /= "locked"
    /\ calls' = [calls EXCEPT ![t].op = "locked"]
    /\ UNCHANGED <<manager, observer, counter, unique_keys, out, seen>>

\* thread t, holding the mutex, looks its impression up, stores it,
\* releases the mutex and returns; the calls are recorded in this order
TestAndSetLocked(t) ==
    /\ UNCHANGED <<syncVars, hostVars>>
    /\ calls[t].op = "locked"
    /\ LET imp == calls[t].imp[1]
           r == ObserverTestAndSet(observer, ObserverSize, imp)
       IN  /\ observer' = r.cache
           /\ out' = [input |-> imp, result |-> r.impression]
           /\ seen' = Append(seen, [input |-> imp, result |-> r.impression])
    /\ calls' = [calls EXCEPT ![t] = [op |-> "idle", imp |-> None]]
    /\ UNCHANGED <<manager, counter, unique_keys>>

InitObservers ==
    /\ storage = [cn |-> None, splits |-> {}]
    /\ backoff = [attempt |-> 0]
    /\ th = [t \in Callers |-> IdleThread]
    /\ hist = [t \in Callers |-> NoHistory(storage)]
    /\ manager = [mode |-> DEBUG, listener |-> FALSE]
    /\ observer = <<>>
    /\ counter = NoData
    /\ unique_keys = NoData
    /\ out = [input |-> None, result |-> None]
    /\ seen = <<>>
    /\ calls = [t \in ObserverThreads |-> [op |-> "idle", imp |-> None]]
    /\ shutdown = FALSE
    /\ auth = NoAuth
    /\ local = NoLocal

NextObservers ==
    \/ \E t \in ObserverThreads, e \in ObservedEvaluations :
          TestAndSetCall(t, e)
    \/ \E t \in ObserverThreads : TestAndSetAcquire(t)
    \/ \E t \in ObserverThreads : TestAndSetLocked(t)

SpecObservers == InitObservers /\ [][NextObservers]_vars

(***************************************************************************)
(* LocalSplitSynchronizer: the sanitizer of the JSON mode.                 *)
(*                                                                         *)
(* A JSON object is a function from the keys it has to their values; a     *)
(* key that is missing is not in its domain, the value null is None and    *)
(* any other value x of a document or of a split is Some(x).               *)
(***************************************************************************)
\* largest number written in a JSON file
MaxNumber == 2

\* the object x with its key k set to the value v
SetKey(x, k, v) == (k :> v) @@ x

\* _sanitize_json_elements, without the check of since against till
SanitizeJsonElementsNoOrder(parsed) ==
    LET p1 == IF "splits" \notin DOMAIN parsed
              THEN SetKey(parsed, "splits", Some(<<>>)) ELSE parsed
        p2 == IF \/ "till" \notin DOMAIN p1
                 \/ p1["till"] = None
                 \/ p1["till"][1] < -1
              THEN SetKey(p1, "till", Some(-1)) ELSE p1
    IN  IF \/ "since" \notin DOMAIN p2
           \/ p2["since"] = None
           \/ p2["since"][1] < -1
        THEN SetKey(p2, "since", p2["till"]) ELSE p2

\* _sanitize_json_elements (lines 442-449)
SanitizeJsonElements(parsed) ==
    LET p1 == IF "splits" \notin DOMAIN parsed
              THEN SetKey(parsed, "splits", Some(<<>>)) ELSE parsed
        p2 == IF \/ "till" \notin DOMAIN p1
                 \/ p1["till"] = None
                 \/ p1["till"][1] < -1
              THEN SetKey(p1, "till", Some(-1)) ELSE p1
    IN  IF \/ "since" \notin DOMAIN p2
           \/ p2["since"] = None
           \/ p2["since"][1] < -1
           \/ p2["since"][1] > p2["till"][1]
        THEN SetKey(p2, "since", p2["till"]) ELSE p2

\* _sanitize_split_element, without the check of the upper value
SanitizeSplitElementNoUpper(split, element_name, default_value, lower_value, upper_value, in_list, not_in_list) ==
    LET s1 == IF element_name \notin DOMAIN split \/ split[element_name] = None
              THEN SetKey(split, element_name, Some(default_value)) ELSE split
        s2 == IF lower_value /= None /\ s1[element_name][1] < lower_value[1]
              THEN SetKey(s1, element_name, Some(default_value)) ELSE s1
        s3 == IF in_list /= None /\ s2[element_name][1] \notin in_list[1]
              THEN SetKey(s2, element_name, Some(default_value)) ELSE s2
    IN  IF not_in_list /= None /\ s3[element_name][1] \in not_in_list[1]
        THEN SetKey(s3, element_name, Some(default_value)) ELSE s3

\* _sanitize_split_element (lines 502-526)
SanitizeSplitElement(split, element_name, default_value, lower_value, upper_value, in_list, not_in_list) ==
    LET s1 == IF element_name \notin DOMAIN split \/ split[element_name] = None
              THEN SetKey(split, element_name, Some(default_value)) ELSE split
        v1 == s1[element_name][1]
        s2 == IF lower_value /= None /\ upper_value /= None
              THEN IF v1 < lower_value[1] \/ v1 > upper_value[1]
                   THEN SetKey(s1, element_name, Some(default_value)) ELSE s1
              ELSE IF lower_value /= None
              THEN IF v1 < lower_value[1]
                   THEN SetKey(s1, element_name, Some(default_value)) ELSE s1
              ELSE IF upper_value /= None
              THEN IF v1 > upper_value[1]
                   THEN SetKey(s1, element_name, Some(default_value)) ELSE s1
              ELSE s1
        s3 == IF in_list /= None /\ s2[element_name][1] \notin in_list[1]
              THEN SetKey(s2, element_name, Some(default_value)) ELSE s2
    IN  IF not_in_list /= None /\ s3[element_name][1] \in not_in_list[1]
        THEN SetKey(s3, element_name, Some(default_value)) ELSE s3

\* [e.value for e in splits.Status]
StatusValues == {ACTIVE, ARCHIVED}

\* the tuples of lines 466-474: (name, default, lower, upper, in_list) and,
\* for defaultTreatment only, a sixth item
SplitElements(now) ==
    << <<"trafficTypeName", "user", None, None, None>>,
       <<"trafficAllocation", 100, Some(0), Some(100), None>>,
       <<"trafficAllocationSeed", now, Some(0), None, None>>,
       <<"seed", now, Some(0), None, None>>,
       <<"status", ACTIVE, None, None, Some(StatusValues)>>,
       <<"killed", FALSE, None, None, None>>,
       <<"defaultTreatment", "on", None, None, None, Some({"", " "})>>,
       <<"changeNumber", 0, Some(0), None, None>>,
       <<"algo", 2, Some(2), Some(2), None>> >>

RECURSIVE SanitizeElements(_, _)
\* the loop of lines 466-475: each tuple's first five items are passed on,
\* not_in_list keeps its default None
SanitizeElements(split, elements) ==
    IF elements = <<>> THEN split
    ELSE LET element == Head(elements)
         IN  SanitizeElements(
                 SanitizeSplitElement(split, element[1], element[2],
                                      element[3], element[4], element[5],
                                      None),
                 Tail(elements))

\* a condition of type ROLLOUT with a matcher of type ALL_KEYS
IsDefaultRule(condition) ==
    /\ "conditionType" \in DOMAIN condition
    /\ condition["conditionType"] = "ROLLOUT"
    /\ "matcherGroup" \in DOMAIN condition
    /\ "matchers" \in DOMAIN condition["matcherGroup"]
    /\ \E i \in 1..Len(condition["matcherGroup"]["matchers"]) :
          condition["matcherGroup"]["matchers"][i]["matcherType"] = "ALL_KEYS"

\* the condition of lines 554-576
DefaultRule ==
    [conditionType |-> "ROLLOUT",
     matcherGroup |-> [combiner |-> "AND",
                       matchers |-> <<[matcherType |-> "ALL_KEYS",
                                       negate |-> FALSE]>>],
     partitions |-> <<[treatment |-> "on", size |-> 0],
                      [treatment |-> "off", size |-> 100]>>,
     label |-> "default rule"]

\* _santizie_condition that looks for the matcher in conditions of any type
SantizieConditionAnyType(split) ==
    LET s1 == IF "conditions" \notin DOMAIN split \/ split["conditions"] = None
              THEN SetKey(split, "conditions", Some(<<>>)) ELSE split
        conditions == s1["conditions"][1]
        found == \E i \in 1..Len(conditions) :
                    /\ "matcherGroup" \in DOMAIN conditions[i]
                    /\ "matchers" \in DOMAIN conditions[i]["matcherGroup"]
                    /\ \E j \in 1..Len(conditions[i]["matcherGroup"]["matchers"]) :
                          conditions[i]["matcherGroup"]["matchers"][j]["matcherType"]
                             = "ALL_KEYS"
    IN  IF found THEN s1
        ELSE SetKey(s1, "conditions", Some(Append(conditions, DefaultRule)))

\* _santizie_condition (lines 538-578)
SantizieCondition(split) ==
    LET s1 == IF "conditions" \notin DOMAIN split \/ split["conditions"] = None
              THEN SetKey(split, "conditions", Some(<<>>)) ELSE split
        conditions == s1["conditions"][1]
        found_all_keys_matcher ==
            \E i \in 1..Len(conditions) : IsDefaultRule(conditions[i])
    IN  IF found_all_keys_matcher THEN s1
        ELSE SetKey(s1, "conditions", Some(Append(conditions, DefaultRule)))

\* str.strip() of the names written in the files of the model
Strip(name) == IF name \in {" ", "  "} THEN "" ELSE name

\* line 463: the split is skipped
WithoutName(split) ==
    "name" \notin DOMAIN split \/ Strip(split["name"][1]) = ""

RECURSIVE SanitizeSplitElements(_, _)
\* _sanitize_split_elements (lines 461-478); now is what
\* get_current_epoch_time_ms() returns
SanitizeSplitElements(parsed_splits, now) ==
    IF parsed_splits = <<>> THEN <<>>
    ELSE LET split == Head(parsed_splits)
             rest == SanitizeSplitElements(Tail(parsed_splits), now)
         IN  IF WithoutName(split) THEN rest
             ELSE <<SantizieCondition(
                        SanitizeElements(split, SplitElements(now)))>>
                  \o rest

\* _sanitize_split (lines 415-418)
SanitizeSplit(parsed, now) ==
    LET p == SanitizeJsonElements(parsed)
    IN  SetKey(p, "splits", Some(SanitizeSplitElements(p["splits"][1], now)))

(***************************************************************************)
(* The sanitizer applied to the documents a JSON file may hold.            *)
(***************************************************************************)
\* the object x without its key k
Without(x, k) == [j \in DOMAIN x \ {k} |-> x[j]]

\* what get_current_epoch_time_ms() may return
Clock == {1000, 1001}

\* the numbers written for since and till, null included
FileNumbers == {None} \cup { Some(n) : n \in (-3)..MaxNumber }

\* the objects with at most the key k, its value one of vals
Fields(k, vals) == {NoData} \cup { k :> v : v \in vals }

RolloutAllKeys ==
    [conditionType |-> "ROLLOUT",
     matcherGroup |-> [combiner |-> "AND",
                       matchers |-> <<[matcherType |-> "WHITELIST"],
                                      [matcherType |-> "ALL_KEYS"]>>],
     partitions |-> <<[treatment |-> "on", size |-> 100]>>,
     label |-> "in rollout"]

\* the conditions written in the files: of type ROLLOUT or not, with a
\* matcher of type ALL_KEYS or not, with their keys or without
FileConditions ==
    { RolloutAllKeys,
      [RolloutAllKeys EXCEPT !.conditionType = "WHITELIST"],
      [RolloutAllKeys EXCEPT
          !.matcherGroup.matchers = <<[matcherType |-> "WHITELIST"]>>],
      [RolloutAllKeys EXCEPT !.matcherGroup = [combiner |-> "AND"]],
      Without(RolloutAllKeys, "matcherGroup"),
      Without(RolloutAllKeys, "conditionType") }

\* a split with every element in its bounds
BaseSplit ==
    [name |-> Some("A"), trafficTypeName |-> Some("account"),
     trafficAllocation |-> Some(50), trafficAllocationSeed |-> Some(7),
     seed |-> Some(8), status |-> Some(ARCHIVED), killed |-> Some(TRUE),
     defaultTreatment |-> Some("off"), changeNumber |-> Some(5),
     algo |-> Some(2), conditions |-> Some(<<RolloutAllKeys>>)]

\* the values written for the elements of a split, null included
FileValues ==
    [name |-> {Some("B"), Some(""), Some(" ")},
     trafficTypeName |-> {None, Some("user")},
     trafficAllocation |-> {None, Some(-1), Some(0), Some(100), Some(101)},
     trafficAllocationSeed |-> {None, Some(-1), Some(0)},
     seed |-> {None, Some(-1), Some(0)},
     status |-> {None, Some(ACTIVE), Some("DELETED")},
     killed |-> {None, Some(FALSE)},
     defaultTreatment |-> {None, Some(""), Some(" "), Some("on")},
     changeNumber |-> {None, Some(-1), Some(0)},
     algo |-> {None, Some(1), Some(3)},
     conditions |-> {None} \cup { Some(l) : l \in BSeq(FileConditions, 2) }]

\* the split with its element k missing or written anew
Variants(split, k) ==
    {Without(split, k)} \cup { SetKey(split, k, v) : v \in FileValues[k] }

\* BaseSplit with one element, and with two, missing or written anew
OneOff == UNION { Variants(BaseSplit, k) : k \in DOMAIN FileValues }

TwoOff ==
    UNION { Variants(split, k) :
              split \in OneOff, k \in DOMAIN FileValues \ {"conditions"} }

\* the objects parsed from the files: every since and till with and
\* without splits, and every split above alone and before BaseSplit
FileDocuments ==
    { a @@ b @@ c : a \in Fields("since", FileNumbers),
                    b \in Fields("till", FileNumbers),
                    c \in Fields("splits", {Some(<<>>)}) }
    \cup { [till |-> Some(1), splits |-> Some(<<split>>)] :
             split \in TwoOff }
    \cup { [till |-> Some(1), splits |-> Some(<<split, BaseSplit>>)] :
             split \in OneOff }

\* self._sanitize_split(parsed) of the object parsed from the file, at
\* the time now
SanitizeSplitCall ==
    /\ UNCHANGED <<syncVars, impVars, shutdown, auth>>
    /\ local.mode = "parsed"
    /\ local' = [mode |-> "sanitizer", input |-> local.input,
                 now |-> local.now,
                 output |-> SanitizeSplit(local.input, local.now)]

InitSanitizer ==
    /\ storage = [cn |-> None, splits |-> {}]
    /\ backoff = [attempt |-> 0]
    /\ th = [t \in Callers |-> IdleThread]
    /\ hist = [t \in Callers |-> NoHistory(storage)]
    /\ manager = [mode |-> OPTIMIZED, listener |-> FALSE]
    /\ observer = <<>>
    /\ counter = NoData
    /\ unique_keys = NoData
    /\ out = NoOutput
    /\ seen = NothingSeen
    /\ calls = <<>>
    /\ shutdown = FALSE
    /\ auth = NoAuth
    /\ local \in { [mode |-> "parsed", input |-> parsed, now |-> now] :
                      parsed \in FileDocuments, now \in Clock }

NextSanitizer == SanitizeSplitCall

SpecSanitizer == InitSanitizer /\ [][NextSanitizer]_vars

(***************************************************************************)
(* LocalSplitSynchronizer.synchronize_splits in JSON mode.  The storage    *)
(* holds the names of its splits; local holds the synchronizer's           *)
(* _current_json_sha and what its last call read, did and returned.        *)
(***************************************************************************)
\* the kinds of exception of the local synchronizer
ValueError == "ValueError"
APIException == "APIException"

\* splits.from_raw succeeds: every condition has its matchers and its
\* partitions
Parsable(split) ==
    \A i \in 1..Len(split["conditions"][1]) :
        LET condition == split["conditions"][1][i]
        IN  /\ "partitions" \in DOMAIN condition
            /\ "matcherGroup" \in DOMAIN condition
            /\ "matchers" \in DOMAIN condition["matcherGroup"]

\* one call of the storage
StorageOp(op, name, cn) == [op |-> op, name |-> name, cn |-> cn]

\* hashlib.sha256 of json.dumps(fetched): equal for equal arrays and, a
\* collision aside, for them only; "-1" before the first read is None
GetSha(fetched) == Some(fetched)

\* _read_splits_from_json_file (lines 395-403): what goes wrong in it
\* comes out as a ValueError
ReadSplitsFromJsonFile(file, now) ==
    IF file.kind = "object"
    THEN LET santitized == SanitizeSplit(file.parsed, now)
         IN  [exc |-> None, splits |-> santitized["splits"][1],
              till |-> santitized["till"][1]]
    ELSE [exc |-> Some(ValueError), splits |-> <<>>, till |-> -1]

RECURSIVE ApplyFetched(_, _, _)
\* the loop of lines 371-378 over the splits left to apply: the names in
\* storage, the storage calls made and the exception of splits.from_raw
ApplyFetched(names, ops, fetched) ==
    IF fetched = <<>> THEN [names |-> names, ops |-> ops, exc |-> None]
    ELSE LET split == Head(fetched)
             name == split["name"][1]
         IN  IF split["status"] = Some(ACTIVE)
             THEN IF Parsable(split)
                  THEN ApplyFetched(names \cup {name},
                                    Append(ops, StorageOp("put", name, -1)),
                                    Tail(fetched))
                  ELSE [names |-> names, ops |-> ops, exc |-> Some("KeyError")]
             ELSE ApplyFetched(names \ {name},
                               Append(ops, StorageOp("remove", name, -1)),
                               Tail(fetched))

\* _synchronize_json without the comparison of line 370
SynchronizeJsonAnyTill(st, sha, file, now) ==
    LET read == ReadSplitsFromJsonFile(file, now)
        fecthed_sha == GetSha(read.splits)
        applied == ApplyFetched(st.splits, <<>>, read.splits)
    IN  IF read.exc /= None
        THEN [exc |-> Some(ValueError), storage |-> st, sha |-> sha,
              ops |-> <<>>]
        ELSE IF fecthed_sha = sha
        THEN [exc |-> None, storage |-> st, sha |-> sha, ops |-> <<>>]
        ELSE IF applied.exc /= None
        THEN [exc |-> Some(ValueError),
              storage |-> [st EXCEPT !.splits = applied.names],
              sha |-> fecthed_sha, ops |-> applied.ops]
        ELSE [exc |-> None,
              storage |-> [cn |-> Some(read.till), splits |-> applied.names],
              sha |-> fecthed_sha,
              ops |-> Append(applied.ops,
                             StorageOp("set_change_number", "", read.till))]

\* _synchronize_json (lines 364-383): what goes wrong in it comes out as a
\* ValueError; get_change_number() <= till raises when the storage has no
\* change number
SynchronizeJson(st, sha, file, now) ==
    LET read == ReadSplitsFromJsonFile(file, now)
        fecthed_sha == GetSha(read.splits)
        applied == ApplyFetched(st.splits, <<>>, read.splits)
    IN  IF read.exc /= None
        THEN [exc |-> Some(ValueError), storage |-> st, sha |-> sha,
              ops |-> <<>>]
        ELSE IF fecthed_sha = sha
        THEN [exc |-> None, storage |-> st, sha |-> sha, ops |-> <<>>]
        ELSE IF st.cn = None
        THEN [exc |-> Some(ValueError), storage |-> st, sha |-> fecthed_sha,
              ops |-> <<>>]
        ELSE IF ~(st.cn[1] <= read.till)
        THEN [exc |-> None, storage |-> st, sha |-> fecthed_sha, ops |-> <<>>]
        ELSE IF applied.exc /= None
        THEN [exc |-> Some(ValueError),
              storage |-> [st EXCEPT !.splits = applied.names],
              sha |-> fecthed_sha, ops |-> applied.ops]
        ELSE [exc |-> None,
              storage |-> [cn |-> Some(read.till), splits |-> applied.names],
              sha |-> fecthed_sha,
              ops |-> Append(applied.ops,
                             StorageOp("set_change_number", "", read.till))]

\* synchronize_splits without its except clause
RaiseAsIs(exc) == exc

\* synchronize_splits, lines 327-329: whatever is raised below comes out
\* as APIException("Error fetching splits information")
RaiseAPIException(exc) == IF exc = None THEN None ELSE Some(APIException)

\* the splits written in the JSON files: A active without seeds, A
\* archived, and C active with a condition splits.from_raw cannot parse
JsonSplits ==
    { [name |-> Some("A"), status |-> Some(ACTIVE)],
      BaseSplit,
      [BaseSplit EXCEPT
          !["name"] = Some("C"), !["status"] = Some(ACTIVE),
          !["conditions"] = Some(<<Without(RolloutAllKeys, "matcherGroup")>>)] }

\* the JSON files: not readable, not JSON, an array, or an object with up
\* to two splits and a till or none
JsonFiles ==
    { [kind |-> k, parsed |-> NoData] : k \in {"unreadable", "invalid", "array"} }
    \cup { [kind |-> "object", parsed |-> t @@ [splits |-> Some(l)]] :
             t \in Fields("till", {Some(0), Some(MaxNumber)}),
             l \in BSeq(JsonSplits, 2) }

\* synchronize_splits() of a synchronizer in JSON mode, the file holding
\* file and the clock showing now
LocalSynchronizeJson(file, now) ==
    /\ UNCHANGED <<backoff, th, hist, impVars, shutdown, auth>>
    /\ local.mode = "JSON"
    /\ LET r == SynchronizeJson(storage, local.sha, file, now)
       IN  /\ storage' = r.storage
           /\ local' = [mode |-> "JSON", sha |-> r.sha, file |-> Some(file),
                        now |-> now, ops |-> r.ops,
                        exc |-> RaiseAPIException(r.exc)]

\* LocalSplitSynchronizer(filename, storage, LocalhostMode.JSON)
InitLocalJson ==
    /\ storage \in {[cn |-> c, splits |-> {}] : c \in {None, Some(-1)}}
    /\ backoff = [attempt |-> 0]
    /\ th = [t \in Callers |-> IdleThread]
    /\ hist = [t \in Callers |-> NoHistory(storage)]
    /\ manager = [mode |-> OPTIMIZED, listener |-> FALSE]
    /\ observer = <<>>
    /\ counter = NoData
    /\ unique_keys = NoData
    /\ out = NoOutput
    /\ seen = NothingSeen
    /\ calls = <<>>
    /\ shutdown = FALSE
    /\ auth = NoAuth
    /\ local = [mode |-> "JSON", sha |-> None, file |-> None, now |-> 0,
                ops |-> <<>>, exc |-> None]

NextLocalJson ==
    \E file \in JsonFiles, now \in Clock : LocalSynchronizeJson(file, now)

SpecLocalJson == InitLocalJson /\ [][NextLocalJson]_vars

(***************************************************************************)
(* The local synchronizer in legacy and YAML mode.                         *)
(***************************************************************************)
\* the lines or statements of a file
MaxStatements == 2

LEGACY == "LEGACY"
YAML == "YAML"
JSON == "JSON"

\* str.lower() on the characters the file names are made of
Lower(filename) ==
    [i \in 1..Len(filename) |->
        CASE filename[i] = "Y" -> "y"
          [] filename[i] = "A" -> "a"
          [] filename[i] = "M" -> "m"
          [] filename[i] = "L" -> "l"
          [] OTHER -> filename[i]]

\* str.endswith(suffix)
EndsWith(filename, suffix) ==
    /\ Len(filename) >= Len(suffix)
    /\ SubSeq(filename, Len(filename) - Len(suffix) + 1, Len(filename)) = suffix

\* filename.lower().endswith(('.yaml', '.yml'))
IsYamlFilename(filename) ==
    \/ EndsWith(Lower(filename), <<".", "y", "a", "m", "l">>)
    \/ EndsWith(Lower(filename), <<".", "y", "m", "l">>)

\* _make_all_keys_condition, as far as the treatment it serves
MakeAllKeysCondition(treatment) ==
    [matcherType |-> "ALL_KEYS", whitelist |-> <<>>, treatment |-> treatment]

\* _make_whitelist_condition, as far as the keys and the treatment
MakeWhitelistCondition(keys, treatment) ==
    [matcherType |-> "WHITELIST", whitelist |-> keys, treatment |-> treatment]

\* _make_split: an ACTIVE split of that name
MakeSplit(split_name, conditions, configs) ==
    [name |-> split_name, status |-> ACTIVE, conditions |-> conditions,
     configurations |-> configs]

\* to_return[splt.name] = splt on a dict kept in insertion order
SetItem(to_return, splt) ==
    IF \E i \in 1..Len(to_return) : to_return[i].name = splt.name
    THEN [i \in 1..Len(to_return) |->
             IF to_return[i].name = splt.name THEN splt ELSE to_return[i]]
    ELSE Append(to_return, splt)

\* a line is a sequence of words, runs of blanks " " and marks "#"
IsWord(token) == token \notin {" ", "#"}

\* line.strip() == '' or _LEGACY_COMMENT_LINE_RE.match(line)
IsBlankOrComment(line) ==
    \/ \A i \in 1..Len(line) : line[i] = " "
    \/ Len(line) > 0 /\ line[1] = "#"

\* _LEGACY_DEFINITION_LINE_RE.match(line): a word, blanks, a word
IsDefinition(line) ==
    /\ Len(line) = 3
    /\ IsWord(line[1]) /\ line[2] = " " /\ IsWord(line[3])

RECURSIVE ReadLegacyLines(_, _)
\* the loop of _read_splits_from_legacy_file
ReadLegacyLines(to_return, lines) ==
    IF lines = <<>> THEN to_return
    ELSE LET line == Head(lines)
         IN  IF IsBlankOrComment(line) \/ ~IsDefinition(line)
             THEN ReadLegacyLines(to_return, Tail(lines))
             ELSE ReadLegacyLines(
                      SetItem(to_return,
                              MakeSplit(line[1],
                                        <<MakeAllKeysCondition(line[3])>>,
                                        None)),
                      Tail(lines))

\* _read_splits_from_legacy_file
ReadSplitsFromLegacyFile(file) ==
    IF file.kind = "unreadable"
    THEN [exc |-> Some(ValueError), fetched |-> <<>>]
    ELSE [exc |-> None, fetched |-> ReadLegacyLines(<<>>, file.content)]

\* the feature names in the order sorted() puts them
FeatureNames == <<"A", "B", "Z">>

\* the statements of one feature in the order of the file, as the stable
\* sorted() and groupby() give them
StatementsOf(parsed, split_name) ==
    SelectSeq(parsed, LAMBDA statement : statement.feature = split_name)

\* the conditions of the statements that have keys, or of those that
\* have none
ConditionsFrom(statements, with_keys) ==
    LET chosen == SelectSeq(statements,
                      LAMBDA s : ("keys" \in DOMAIN s.data) = with_keys)
    IN  [i \in 1..Len(chosen) |->
            LET data == chosen[i].data
            IN  IF with_keys
                THEN MakeWhitelistCondition(
                         IF data["keys"].list THEN data["keys"].value
                         ELSE <<data["keys"].value>>,
                         data["treatment"])
                ELSE MakeAllKeysCondition(data["treatment"])]

RECURSIVE ConfigsOf(_, _)
\* configs[data['treatment']] = data['config'] over the statements
ConfigsOf(configs, statements) ==
    IF statements = <<>> THEN configs
    ELSE LET data == Head(statements).data
         IN  ConfigsOf(IF "config" \in DOMAIN data
                       THEN SetKey(configs, data["treatment"], data["config"])
                       ELSE configs,
                       Tail(statements))

\* (mutant) the conditions for all keys come first
ReadSplitsFromYamlFileAllKeysFirst(file) ==
    CASE file.kind = "unreadable" -> [exc |-> Some(ValueError), fetched |-> <<>>]
      [] file.kind = "invalid" -> [exc |-> Some("YAMLError"), fetched |-> <<>>]
      [] file.kind = "empty" -> [exc |-> Some("TypeError"), fetched |-> <<>>]
      [] OTHER ->
          LET parsed == file.content
              names == SelectSeq(FeatureNames,
                           LAMBDA n : \E i \in 1..Len(parsed) :
                                          parsed[i].feature = n)
          IN  IF \E i \in 1..Len(parsed) : "treatment" \notin DOMAIN parsed[i].data
              THEN [exc |-> Some("KeyError"), fetched |-> <<>>]
              ELSE [exc |-> None,
                    fetched |->
                        [i \in 1..Len(names) |->
                            LET statements == StatementsOf(parsed, names[i])
                            IN  MakeSplit(names[i],
                                    ConditionsFrom(statements, FALSE)
                                        \o ConditionsFrom(statements, TRUE),
                                    ConfigsOf(NoData, statements))]]

\* _read_splits_from_yaml_file: a file that cannot be opened raises
\* ValueError, one that is not YAML raises in yaml.load, an empty one
\* raises in sorted(None), a statement without treatment raises KeyError
ReadSplitsFromYamlFile(file) ==
    CASE file.kind = "unreadable" -> [exc |-> Some(ValueError), fetched |-> <<>>]
      [] file.kind = "invalid" -> [exc |-> Some("YAMLError"), fetched |-> <<>>]
      [] file.kind = "empty" -> [exc |-> Some("TypeError"), fetched |-> <<>>]
      [] OTHER ->
          LET parsed == file.content
              names == SelectSeq(FeatureNames,
                           LAMBDA n : \E i \in 1..Len(parsed) :
                                          parsed[i].feature = n)
          IN  IF \E i \in 1..Len(parsed) : "treatment" \notin DOMAIN parsed[i].data
              THEN [exc |-> Some("KeyError"), fetched |-> <<>>]
              ELSE [exc |-> None,
                    fetched |->
                        [i \in 1..Len(names) |->
                            LET statements == StatementsOf(parsed, names[i])
                            IN  MakeSplit(names[i],
                                    ConditionsFrom(statements, TRUE)
                                        \o ConditionsFrom(statements, FALSE),
                                    ConfigsOf(NoData, statements))]]

\* _synchronize_legacy that removes nothing
SynchronizeLegacyNoRemove(st, filename, file) ==
    LET read == IF IsYamlFilename(filename)
                THEN ReadSplitsFromYamlFile(file)
                ELSE ReadSplitsFromLegacyFile(file)
        fetched == read.fetched
    IN  IF read.exc /= None
        THEN [exc |-> read.exc, storage |-> st, ops |-> <<>>,
              fetched |-> <<>>, result |-> None]
        ELSE [exc |-> None,
              storage |-> [st EXCEPT !.splits =
                              @ \cup {fetched[i].name : i \in 1..Len(fetched)}],
              ops |-> [i \in 1..Len(fetched) |->
                          StorageOp("put", fetched[i].name, -1)],
              fetched |-> fetched, result |-> Some(<<>>)]

\* _synchronize_legacy: the reader is chosen by the name of the file; all
\* that is fetched is put, and the names of the storage that are not
\* fetched are removed; the call returns the empty list
SynchronizeLegacy(st, filename, file) ==
    LET read == IF IsYamlFilename(filename)
                THEN ReadSplitsFromYamlFile(file)
                ELSE ReadSplitsFromLegacyFile(file)
        fetched == read.fetched
        keys == {fetched[i].name : i \in 1..Len(fetched)}
        to_delete == SelectSeq(FeatureNames,
                               LAMBDA name : name \in st.splits /\ name \notin keys)
    IN  IF read.exc /= None
        THEN [exc |-> read.exc, storage |-> st, ops |-> <<>>,
              fetched |-> <<>>, result |-> None]
        ELSE [exc |-> None,
              storage |-> [st EXCEPT !.splits =
                              (@ \cup keys) \ {to_delete[i] : i \in 1..Len(to_delete)}],
              ops |-> [i \in 1..Len(fetched) |->
                          StorageOp("put", fetched[i].name, -1)]
                      \o [i \in 1..Len(to_delete) |->
                             StorageOp("remove", to_delete[i], -1)],
              fetched |-> fetched, result |-> Some(<<>>)]

\* the lines written in the legacy files: a comment, a definition of A
\* and one of B, and a line of one word
LegacyLines ==
    { <<"#", "A", " ", "on">>, <<"A", " ", "on">>, <<"B", " ", "on">>, <<"A">> }

\* the legacy files: not readable, or some lines
LegacyFiles ==
    { [kind |-> "unreadable", content |-> <<>>] }
    \cup { [kind |-> "lines", content |-> l] :
             l \in BSeq(LegacyLines, MaxStatements) }

\* the statements written in the YAML files: A on and A off for all keys,
\* A off for one key given alone, A on for a list of keys and with a
\* config, B on with a config, and A without a treatment
YamlStatements ==
    { [feature |-> "A", data |-> [treatment |-> "on"]],
      [feature |-> "A", data |-> [treatment |-> "off"]],
      [feature |-> "A",
       data |-> [treatment |-> "off", keys |-> [list |-> FALSE, value |-> "k"]]],
      [feature |-> "A",
       data |-> [treatment |-> "on", keys |-> [list |-> TRUE, value |-> <<"k">>],
                 config |-> "c"]],
      [feature |-> "B", data |-> [treatment |-> "on", config |-> "d"]],
      [feature |-> "A", data |-> [config |-> "c"]] }

\* the statements of the files that are read one after the other: A on,
\* A off for one key, B on with a config, and A without a treatment
YamlStatementsFew ==
    YamlStatements \
        { [feature |-> "A", data |-> [treatment |-> "off"]],
          [feature |-> "A",
           data |-> [treatment |-> "on",
                     keys |-> [list |-> TRUE, value |-> <<"k">>],
                     config |-> "c"]] }

\* the YAML files: not readable, not YAML, empty, or a list of statements
YamlFiles(statements) ==
    { [kind |-> k, content |-> <<>>] : k \in {"unreadable", "invalid", "empty"} }
    \cup { [kind |-> "list", content |-> l] :
             l \in BSeq(statements, MaxStatements) \ {<<>>} }

\* the YAML files that are read one after the other
YamlFilesFew == YamlFiles(YamlStatementsFew)

\* all the YAML files
YamlDocuments == YamlFiles(YamlStatements)

\* the names a file may have
Filenames ==
    { <<"s">>, <<"s", ".", "Y", "M", "L">> }

\* (mutant) the call ends with a set_change_number(-1)
LocalSynchronizeLegacyStamped(file) ==
    /\ UNCHANGED <<backoff, th, hist, impVars, shutdown, auth>>
    /\ local.mode \in {LEGACY, YAML}
    /\ LET r == SynchronizeLegacy(storage, local.filename, file)
       IN  /\ storage' = [r.storage EXCEPT !.cn = Some(-1)]
           /\ local' = [local EXCEPT !.file = Some(file), !.ops = r.ops,
                                     !.fetched = r.fetched,
                                     !.result = r.result,
                                     !.exc = RaiseAPIException(r.exc)]

\* synchronize_splits() of a synchronizer in legacy or YAML mode, the
\* file holding file
LocalSynchronizeLegacy(file) ==
    /\ UNCHANGED <<backoff, th, hist, impVars, shutdown, auth>>
    /\ local.mode \in {LEGACY, YAML}
    /\ LET r == SynchronizeLegacy(storage, local.filename, file)
       IN  /\ storage' = r.storage
           /\ local' = [local EXCEPT !.file = Some(file), !.ops = r.ops,
                                     !.fetched = r.fetched,
                                     !.result = r.result,
                                     !.exc = RaiseAPIException(r.exc)]

\* the JSON files with one split at most and no till
JsonFilesFew ==
    { file \in JsonFiles :
        file.kind = "object" =>
            /\ "till" \notin DOMAIN file.parsed
            /\ Len(file.parsed["splits"][1]) <= 1 }

\* LocalSplitSynchronizer(filename, storage, localhost_mode) over a storage
\* with any names and a change number or none
InitLocal ==
    /\ storage \in {[cn |-> c, splits |-> s] :
                      c \in {None, Some(-1)}, s \in SUBSET {"A", "Z"}}
    /\ backoff = [attempt |-> 0]
    /\ th = [t \in Callers |-> IdleThread]
    /\ hist = [t \in Callers |-> NoHistory(storage)]
    /\ manager = [mode |-> OPTIMIZED, listener |-> FALSE]
    /\ observer = <<>>
    /\ counter = NoData
    /\ unique_keys = NoData
    /\ out = NoOutput
    /\ seen = NothingSeen
    /\ calls = <<>>
    /\ shutdown = FALSE
    /\ auth = NoAuth
    /\ local \in {[mode |-> JSON, sha |-> None, file |-> None, now |-> 0,
                   ops |-> <<>>, exc |-> None]}
                 \cup {[mode |-> m, filename |-> f, file |-> None,
                        ops |-> <<>>, fetched |-> <<>>, result |-> None,
                        exc |-> None] :
                          m \in {LEGACY, YAML}, f \in Filenames}

NextLocal ==
    \/ \E file \in JsonFilesFew : LocalSynchronizeJson(file, 1000)
    \/ /\ local.mode \in {LEGACY, YAML}
       /\ ~IsYamlFilename(local.filename)
       /\ \E file \in LegacyFiles : LocalSynchronizeLegacy(file)
    \/ /\ local.mode \in {LEGACY, YAML}
       /\ IsYamlFilename(local.filename)
       /\ \E file \in YamlFilesFew : LocalSynchronizeLegacy(file)

SpecLocal == InitLocal /\ [][NextLocal]_vars

(***************************************************************************)
(* One call of a synchronizer whose file is a YAML file, over any of the   *)
(* YAML files.                                                             *)
(***************************************************************************)
InitYaml ==
    /\ InitLocal
    /\ local.mode \in {LEGACY, YAML}
    /\ IsYamlFilename(local.filename)

NextYaml ==
    \E file \in YamlDocuments :
        local.file = None /\ LocalSynchronizeLegacy(file)

SpecYaml == InitYaml /\ [][NextYaml]_vars

(***************************************************************************)
(* The auth API (splitio/api/auth.py).                                     *)
(***************************************************************************)
\* the calls of authenticate in a behaviour
MaxAuthCalls == 3

\* the status codes the auth service answers with
StatusCodes == {199, 200, 299, 300, 401, 500}

\* the bodies of the answers: text that is not JSON, or the JSON of a
\* token
Bodies ==
    { [json |-> FALSE, pushEnabled |-> FALSE] }
    \cup { [json |-> TRUE, pushEnabled |-> p] : p \in BOOLEAN }

\* what self._client.get does: it raises HttpClientException or returns
\* a response
ClientGets ==
    { [raises |-> TRUE, status_code |-> 0,
       body |-> [json |-> FALSE, pushEnabled |-> FALSE]] }
    \cup { [raises |-> FALSE, status_code |-> s, body |-> b] :
             s \in StatusCodes, b \in Bodies }

\* splitio.models.token.from_raw on the parsed body
TokenFromRaw(payload) == [push_enabled |-> payload.pushEnabled]

\* what a call of authenticate ends with
Outcome(raised, status_code, token, rejections) ==
    [raised |-> raised, status_code |-> status_code, token |-> token,
     rejections |-> rejections]

\* authenticate that takes every answer for a token
AuthenticateResultAnyStatus(response, auth_rejections) ==
    IF response.raises
    THEN Outcome(Some(APIException), None, None, auth_rejections)
    ELSE IF ~response.body.json
    THEN Outcome(Some("JSONDecodeError"), None, None, auth_rejections)
    ELSE Outcome(None, None, Some(TokenFromRaw(response.body)), auth_rejections)

\* authenticate, lines 43-61: the outcome of the call, given what the
\* client returned and the rejections counted before the call; the last
\* field is the count of rejections at the time of the raise or return
AuthenticateResult(response, auth_rejections) ==
    IF response.raises
    THEN Outcome(Some(APIException), None, None, auth_rejections)
    ELSE IF 200 <= response.status_code /\ response.status_code < 300
    THEN IF ~response.body.json
         THEN Outcome(Some("JSONDecodeError"), None, None, auth_rejections)
         ELSE Outcome(None, None, Some(TokenFromRaw(response.body)),
                      auth_rejections)
    ELSE Outcome(Some(APIException), Some(response.status_code), None,
                 IF response.status_code = 401
                 THEN auth_rejections + 1 ELSE auth_rejections)

\* AuthAPI.authenticate(), the client answering with response
Authenticate(response) ==
    /\ UNCHANGED <<syncVars, impVars, shutdown, local>>
    /\ auth.calls < MaxAuthCalls
    /\ LET r == AuthenticateResult(response, auth.auth_rejections)
       IN  auth' = [calls |-> auth.calls + 1,
                    auth_rejections |-> r.rejections,
                    recorded |-> IF response.raises THEN auth.recorded
                                 ELSE Some(response.status_code),
                    response |-> Some(response),
                    result |-> Some(r)]

\* AuthAPI(client, apikey, sdk_metadata, telemetry_runtime_producer)
InitAuth ==
    /\ storage = [cn |-> None, splits |-> {}]
    /\ backoff = [attempt |-> 0]
    /\ th = [t \in Callers |-> IdleThread]
    /\ hist = [t \in Callers |-> NoHistory(storage)]
    /\ manager = [mode |-> OPTIMIZED, listener |-> FALSE]
    /\ observer = <<>>
    /\ counter = NoData
    /\ unique_keys = NoData
    /\ out = NoOutput
    /\ seen = NothingSeen
    /\ calls = <<>>
    /\ shutdown = FALSE
    /\ local = NoLocal
    /\ auth = NoAuth

NextAuth == \E response \in ClientGets : Authenticate(response)

SpecAuth == InitAuth /\ [][NextAuth]_vars

(***************************************************************************)
(* Properties of the remote synchronizer.                                  *)
(***************************************************************************)
\* what a reader expects of one split of a response
ExpectedSplits(splits, raw) ==
    IF raw.status = "ACTIVE" THEN splits \cup {raw.name} ELSE splits \ {raw.name}

RECURSIVE ExpectedPrefix(_, _, _)
\* the splits expected after the first k splits of list l, in order
ExpectedPrefix(splits, l, k) ==
    IF k = 0 THEN splits
    ELSE ExpectedSplits(ExpectedPrefix(splits, l, k - 1), l[k])

\* the sleeps of a pass that has run out of attempts
ExhaustedSleeps == <<10, 20, 30, 30, 30, 30, 30, 30, 30>>

\* C1: a synchronize_splits(till=None) call that returns has applied, as
\* its last response, the first response with since = till; the storage
\* change number is that response's till; no fetch follows it (the only
\* _fetch_until call of the only pass fetched until then and not further).
C1_RemoteConvergence ==
    \A t \in Callers :
        (th[t].pc = "done" /\ th[t].till = None) =>
            /\ hist[t].lastResp /= None
            /\ hist[t].lastResp[1].since = hist[t].lastResp[1].till
            /\ storage.cn = Some(hist[t].lastResp[1].till)
            /\ hist[t].nConv = 1
            /\ hist[t].fetches >= 1
            /\ Len(hist[t].passes) = 1
            /\ hist[t].passes[1].nFU = 1

\* storage at -1 (or never written), a response that is not converged and
\* puts A, then a converged one: two fetches
C1_Witness ==
    /\ th[1].pc = "done"
    /\ th[1].till = None
    /\ hist[1].fetches = 2
    /\ hist[1].lastResp = Some([since |-> MaxCN, till |-> MaxCN])
    /\ storage.cn = Some(MaxCN)
    /\ "A" \in storage.splits

\* C2: the first pass runs with no-cache and no hint; a second pass runs
\* iff the first failed, with no-cache and the change number the first pass
\* returned as hint; there is no third pass, and the call returns after
\* the second pass whatever its outcome (None when it failed).
C2_TwoPhase ==
    \A t \in Callers :
        LET ps == hist[t].passes IN
        /\ Len(ps) <= 2
        /\ Len(ps) >= 1 =>
              ps[1].opts = [cache_control_headers |-> TRUE, change_number |-> None]
        /\ Len(ps) = 2 =>
              /\ ps[1].result = "fail"
              /\ ps[2].opts = [cache_control_headers |-> TRUE,
                               change_number |-> Some(ps[1].cn)]
        /\ th[t].pc = "done" =>
              /\ Len(ps) >= 1
              /\ ps[1].result = "fail" => Len(ps) = 2
              /\ ps[Len(ps)].result \in {"ok", "fail"}
              /\ (th[t].result = None) <=> (ps[Len(ps)].result = "fail")

\* the first pass ended at change number MaxCN, below till; the second
\* pass ran with that hint and failed as well
C2_Witness ==
    /\ th[1].pc = "done"
    /\ Len(hist[1].passes) = 2
    /\ hist[1].passes[1].cn = MaxCN
    /\ hist[1].passes[2].opts.change_number = Some(MaxCN)
    /\ hist[1].passes[2].result = "fail"

\* C3: with a till given and every _fetch_until below it, each pass makes
\* 10 _fetch_until calls with 9 sleeps between them and fails; the call
\* makes 20 in total.  While a pass runs, the sleeps so far are one fewer
\* than the _fetch_until calls begun, or as many once the next sleep is over.
C3_BackoffExhaustion ==
    \A t \in Callers :
        LET ps == hist[t].passes IN
        /\ \A i \in DOMAIN ps :
              /\ Len(ps[i].sleeps) \in {ps[i].nFU - 1, ps[i].nFU}
              /\ (th[t].pc \in {"fu_loop", "fu_fetch", "fu_apply", "attempt_check",
                                "attempt_sleep", "pass_done", "done"}
                    \/ i < Len(ps))
                   => Len(ps[i].sleeps) = ps[i].nFU - 1
        /\ (th[t].pc = "done" /\ th[t].till /= None
                /\ \A i \in DOMAIN ps : ps[i].nMet = 0) =>
              /\ Len(ps) = 2
              /\ \A i \in DOMAIN ps :
                    /\ ps[i].nFU = 10
                    /\ Len(ps[i].sleeps) = 9
                    /\ ps[i].result = "fail"
              /\ ps[1].nFU + ps[2].nFU = 20
              /\ th[t].result = None

C3_Witness ==
    /\ th[1].pc = "done"
    /\ th[1].till = Some(MaxCN + 1)
    /\ Len(hist[1].passes) = 2
    /\ \A i \in {1, 2} : hist[1].passes[i].nMet = 0 /\ hist[1].passes[i].nFU = 10

\* C4: the backoff is reset when a pass starts, and the i-th sleep of a
\* pass (i from 0) lasts min(10 * 2^i, 30) seconds: 10, 20, 30, 30, ...
C4_BackoffDelays ==
    \A t \in Callers :
        LET ps == hist[t].passes IN
        /\ \A i \in DOMAIN ps :
              /\ Len(ps[i].sleeps) <= 9
              /\ \A k \in DOMAIN ps[i].sleeps :
                    ps[i].sleeps[k] = ExhaustedSleeps[k]
              /\ ps[i].result = "fail" => ps[i].sleeps = ExhaustedSleeps
        /\ th[t].pc \in {"attempt_iter", "fu_loop", "fu_fetch", "fu_apply",
                         "attempt_check", "attempt_sleep"}
              => backoff.attempt = Len(ps[Len(ps)].sleeps)

\* the CDN-bypass pass, after an exhausted first pass, has slept 10 and 20
C4_Witness ==
    /\ Len(hist[1].passes) = 2
    /\ hist[1].passes[1].sleeps = ExhaustedSleeps
    /\ hist[1].passes[2].sleeps = <<10, 20>>

\* C5: a pass returns success at the first attempt whose change number cn
\* satisfies till = None or till <= cn, and failure only after 10 attempts
\* all below till; with till = None it makes one _fetch_until call, never
\* sleeps and succeeds.
C5_AttemptCriterion ==
    \A t \in Callers :
        LET ps == hist[t].passes IN
        /\ \A i \in DOMAIN ps :
              /\ ps[i].result = "ok" =>
                    /\ ps[i].nMet = 1
                    /\ th[t].till = None \/ th[t].till[1] <= ps[i].cn
              /\ ps[i].result = "fail" => ps[i].nMet = 0 /\ ps[i].nFU = 10
              /\ ps[i].result = "running" => ps[i].nMet = 0
              /\ ps[i].nFU <= 10
        /\ th[t].till = None =>
              /\ Len(ps) <= 1
              /\ \A i \in DOMAIN ps :
                    /\ ps[i].nFU <= 1
                    /\ ps[i].sleeps = <<>>
                    /\ ps[i].result /= "fail"
              /\ th[t].pc = "done" => ps[1].result = "ok" /\ ps[1].nFU = 1

\* a pass that succeeded at its third attempt, after two sleeps
C5_Witness ==
    /\ Len(hist[1].passes) >= 1
    /\ hist[1].passes[1].result = "ok"
    /\ hist[1].passes[1].nFU = 3
    /\ hist[1].passes[1].sleeps = <<10, 20>>

\* C6: while a response is being applied the storage holds its first
\* idx - 1 splits applied in response order on top of the storage found at
\* the fetch; each step applies the next split (put when ACTIVE, remove
\* otherwise) and leaves the change number alone; the change number is
\* written, with the response's till, only by the step after the last split.
C6_StepOrder ==
    \A t \in Callers :
        /\ th[t].pc /= "fu_apply" => storage' = storage
        /\ th[t].pc = "fu_apply" =>
              LET r == th[t].resp[1]
                  k == th[t].idx
              IN  /\ storage.splits = ExpectedPrefix(hist[t].pre, r.splits, k - 1)
                  /\ storage' /= storage =>
                        IF k <= Len(r.splits)
                        THEN /\ storage'.cn = storage.cn
                             /\ storage'.splits = ExpectedSplits(storage.splits, r.splits[k])
                             /\ th'[t].idx = k + 1
                        ELSE /\ storage'.splits = storage.splits
                             /\ storage'.cn = Some(r.till)
                  /\ th'[t].pc /= "fu_apply" =>
                        /\ k = Len(r.splits) + 1
                        /\ storage'.cn = Some(r.till)
                        /\ storage'.splits = ExpectedPrefix(hist[t].pre, r.splits, Len(r.splits))

C6_ResponseOrder == [][C6_StepOrder]_vars

\* a response that puts A and then removes it has been applied up to its
\* last split; the change number is still the one found at the fetch
C6_Witness ==
    /\ th[1].pc = "fu_apply"
    /\ th[1].resp /= None
    /\ Len(th[1].resp[1].splits) = 2
    /\ th[1].resp[1].splits[1].status = "ACTIVE"
    /\ th[1].resp[1].splits[2].status = "ARCHIVED"
    /\ th[1].resp[1].splits[1].name = th[1].resp[1].splits[2].name
    /\ th[1].idx = 3
    /\ th[1].resp[1].till = MaxCN
    /\ storage.cn = Some(-1)
    /\ storage.splits = {}

\* C7, in a state: a call that raised raised the API's exception, returned
\* no value and left the storage as the last fully applied response left it
C7_Raised ==
    \A t \in Callers :
        th[t].pc = "raised" =>
            /\ hist[t].apiExc /= None
            /\ th[t].exc = hist[t].apiExc
            /\ th[t].result = None
            /\ storage = hist[t].snap

\* C7, in a step: the step in which the API raises ends the call and
\* touches neither storage nor backoff; a call that has raised takes no
\* further step (the caller's next step is a new call)
C7_RaiseStep ==
    \A t \in Callers :
        /\ (hist[t].apiExc = None /\ hist'[t].apiExc /= None) =>
              /\ th'[t].pc = "raised"
              /\ storage' = storage
              /\ backoff' = backoff
        /\ th[t].pc = "raised" =>
              /\ storage' = storage
              /\ backoff' = backoff
              /\ th'[t].pc = "attempt_start"
              /\ hist'[t].passes = <<>>

\* C7: an APIException of a fetch propagates out of synchronize_splits;
\* no fetch, sleep or second pass follows, and the storage is as the last
\* fully applied response left it.
C7_FetchErrorSurfaced == []C7_Raised /\ [][C7_RaiseStep]_vars

\* the fetch of the CDN-bypass pass raised after a response had put A
C7_Witness ==
    /\ th[1].pc = "raised"
    /\ th[1].pass = 2
    /\ th[1].exc = Some("e2")
    /\ storage.splits = {"A"}
    /\ Len(hist[1].passes[2].sleeps) >= 1

(***************************************************************************)
(* Properties of the impression pipeline.                                  *)
(***************************************************************************)
\* the hour of a time, counted from the epoch
HourOf(time) == time \div TIME_INTERVAL_MS

\* the observed impression is sent: no previous time, or one of an
\* earlier hour
ToBeSent(imp) ==
    imp.previous_time = None \/ HourOf(imp.previous_time[1]) < HourOf(imp.time)

\* C8: in optimized mode the list a process_impressions call returns is,
\* in input order, exactly the observed inputs whose previous time is null
\* or of an earlier hour than their time, each carrying that previous
\* time; an input whose evaluation was never met before is among them,
\* whatever other evaluations were handled before it.
C8_EmissionCriterion ==
    manager.mode = OPTIMIZED =>
        /\ Len(out.observed) = Len(out.input)
        /\ \A i \in 1..Len(out.input) :
              /\ out.observed[i][2] = out.input[i][2]
              /\ [out.observed[i][1] EXCEPT !.previous_time = None]
                    = out.input[i][1]
        /\ out.for_log = SelectSeq(Impressions(out.observed), ToBeSent)
        /\ \A i \in 1..Len(seen.fresh) :
              seen.fresh[i] =>
                  /\ out.observed[i][1].previous_time = None
                  /\ \E j \in 1..Len(out.for_log) :
                        out.for_log[j] = out.input[i][1]

\* k1/f1 was sent at 1; a call with k1/f1 at 2 and then an hour later:
\* the first is dropped, the second sent with the previous time 1
C8_Witness ==
    /\ manager.mode = OPTIMIZED
    /\ Len(out.input) = 2
    /\ out.input[1][1] = Impression("k1", "f1", 2)
    /\ out.input[2][1] = Impression("k1", "f1", TIME_INTERVAL_MS + 1)
    /\ out.observed[1][1].previous_time = Some(1)
    /\ out.for_log = <<[out.input[2][1] EXCEPT !.previous_time = Some(1)]>>

\* C9: in optimized mode no evaluation is sent twice with times of the
\* same hour.
C9_SameHourSentOnce ==
    manager.mode = OPTIMIZED =>
        \A k \in DOMAIN seen.sent : seen.sent[k] <= 1

\* the number of inputs of the last call with the counter key k
InputsOf(k) ==
    Cardinality({ i \in 1..Len(out.input) :
                    /\ out.input[i][1].feature_name = k.feature
                    /\ HourOf(out.input[i][1].time) * TIME_INTERVAL_MS
                          = k.timeframe })

\* the count held for a counter key
CountOf(data, k) == IF k \in DOMAIN data THEN data[k] ELSE 0

RECURSIVE SumOfCounts(_, _)
\* the sum of the counts held for the keys ks
SumOfCounts(data, ks) ==
    IF ks = {} THEN 0
    ELSE LET k == CHOOSE x \in ks : TRUE
         IN  data[k] + SumOfCounts(data, ks \ {k})

\* the counter keys of the inputs
CounterKeys ==
    { [feature |-> e[2], timeframe |-> HourOf(t) * TIME_INTERVAL_MS] :
        e \in Evaluations, t \in ImpressionTimes }

\* the counts add up to the inputs since the last pop_all
C10_CountsAddUp ==
    manager.mode = OPTIMIZED =>
        /\ DOMAIN counter \subseteq CounterKeys
        /\ SumOfCounts(counter, DOMAIN counter) = seen.sincePop

\* a process_impressions call adds, to each counter key, the number of its
\* inputs with that feature and hour
C10_CountStep ==
    (manager.mode = OPTIMIZED /\ seen'.processed > seen.processed) =>
        \A k \in CounterKeys :
            CountOf(counter', k) = CountOf(counter, k) + InputsOf(k)'

\* C10: in optimized mode every input of process_impressions, sent or
\* dropped, adds one to the count of (feature, hour of its time), and the
\* counts add up to the number of inputs since the last pop_all.
C10_OptimizedCounting == []C10_CountsAddUp /\ [][C10_CountStep]_vars

\* sent at 1, dropped at 2, sent an hour later: f1 counts 2 and 1
C10_Witness ==
    /\ manager.mode = OPTIMIZED
    /\ seen.sincePop = 3
    /\ counter = ([feature |-> "f1", timeframe |-> 0] :> 2)
                   @@ ([feature |-> "f1", timeframe |-> TIME_INTERVAL_MS] :> 1)
    /\ seen.sent = (<<"k1", "f1", 0>> :> 1) @@ (<<"k1", "f1", 1>> :> 1)
    /\ Len(out.for_log) = 1
    /\ out.for_log[1].previous_time /= None

(***************************************************************************)
(* Properties of the observer.                                             *)
(***************************************************************************)
\* the fields that identify an evaluation
FieldsOf(imp) ==
    <<imp.matching_key, imp.feature_name, imp.treatment, imp.label,
      imp.change_number>>

\* the largest of a non-empty set of numbers
Largest(S) == CHOOSE x \in S : \A y \in S : y <= x

\* a test_and_set call returns its input with the previous time set to the
\* time of the latest earlier call for the same fields when the cache
\* holds them (null otherwise), and the cache then holds the input's time
C11_Step ==
    seen' /= seen =>
        LET imp == out'.input
            held == { i \in 1..Len(observer) : observer[i].key = FieldsOf(imp) }
            earlier == { i \in 1..Len(seen) : FieldsOf(seen[i]) = FieldsOf(imp) }
            expected == IF held = {} THEN None
                        ELSE Some(seen[Largest(earlier)].time)
        IN  /\ out'.result = [imp EXCEPT !.previous_time = expected]
            /\ \E i \in 1..Len(observer') :
                  /\ observer'[i].key = FieldsOf(imp)
                  /\ observer'[i].value = imp.time

\* C11: test_and_set returns a copy of the impression whose previous time
\* is the time of the most recent earlier call with the same fingerprint
\* that is still cached, or null; no other field changes; afterwards the
\* cache maps the fingerprint to the time of the new impression.
C11_TestAndSetContract == [][C11_Step]_vars

RECURSIVE Recent(_, _)
\* the n evaluations accessed last among the calls of log
Recent(log, n) ==
    IF n = 0 \/ log = <<>> THEN {}
    ELSE LET f == FieldsOf(log[Len(log)])
         IN  {f} \cup Recent(SelectSeq(SubSeq(log, 1, Len(log) - 1),
                                       LAMBDA i : FieldsOf(i) /= f),
                             n - 1)

\* C12: the observer never holds more fingerprints than its capacity; it
\* holds exactly the fingerprints accessed last (a hit is an access as an
\* insertion is), so a call reports no previous time exactly when its
\* fingerprint is not among the capacity-many accessed last before it.
C12_LruEviction ==
    /\ Len(observer) <= ObserverSize
    /\ Cardinality({ observer[i].key : i \in 1..Len(observer) }) = Len(observer)
    /\ { observer[i].key : i \in 1..Len(observer) } = Recent(seen, ObserverSize)
    /\ seen /= <<>> =>
          (out.result.previous_time = None
              <=> FieldsOf(seen[Len(seen)])
                     \notin Recent(SubSeq(seen, 1, Len(seen) - 1), ObserverSize))

\* key1, then as many other fingerprints as the cache holds, then key1
\* again: no previous time is reported
C12_Witness ==
    /\ Len(seen) = ObserverSize + 2
    /\ FieldsOf(seen[1]) = FieldsOf(seen[Len(seen)])
    /\ Cardinality({ FieldsOf(seen[i]) : i \in 1..Len(seen) }) = ObserverSize + 1
    /\ out.result.previous_time = None
    /\ Len(observer) = ObserverSize

(***************************************************************************)
(* Properties of the manager, its listener and the three strategies.       *)
(***************************************************************************)
\* the last operation was a process_impressions call
Processed == out.op = "process_impressions"

\* C13: with a listener, whatever the strategy, a process_impressions call
\* logs each input pair exactly once, in input order and with its
\* attributes, the impressions left out of the returned list included;
\* in optimized mode an impression left out is logged with the previous
\* time the observer found.
C13_ListenerCompleteness ==
    (Processed /\ manager.listener) =>
        /\ Len(out.logged) = Len(out.input)
        /\ \A i \in 1..Len(out.input) :
              /\ out.logged[i][2] = out.input[i][2]
              /\ [out.logged[i][1] EXCEPT !.previous_time = None]
                    = out.input[i][1]
              /\ (/\ manager.mode = OPTIMIZED
                  /\ \A j \in 1..Len(out.for_log) :
                        out.for_log[j] /= out.logged[i][1])
                 => out.logged[i][1].previous_time /= None

\* optimized mode, k2/f1 met before: a call with k2/f1 (with attributes)
\* and k1/f1 logs both, the first with its previous time, and returns
\* the second only
C13_Witness ==
    /\ manager.mode = OPTIMIZED
    /\ manager.listener
    /\ Len(out.input) = 2
    /\ out.logged[1] = <<[out.input[1][1] EXCEPT !.previous_time = Some(2)],
                         Some("attrs")>>
    /\ out.logged[2] = out.input[2]
    /\ out.for_log = <<out.input[2][1]>>

\* C14: in none mode the listener is called with the impression carrying,
\* as its previous time, the time of the sighting of its fingerprint
\* before it (null when there was none).
C14_NoneModeAnnotated ==
    (Processed /\ manager.listener /\ manager.mode = NONE) =>
        /\ Len(out.logged) = Len(out.input)
        /\ \A i \in 1..Len(out.logged) :
              out.logged[i][1].previous_time = seen.before[i]

\* C15: in none mode every listener call receives the input impression
\* with no previous time, also when its fingerprint was handled before;
\* no observer is consulted or updated.
C15_NoneModePayload ==
    manager.mode = NONE =>
        /\ observer = <<>>
        /\ (Processed /\ manager.listener) =>
              /\ out.logged = out.input
              /\ \A i \in 1..Len(out.logged) :
                    out.logged[i][1].previous_time = None

\* none mode: k1/f1 of the second hour, met in the first hour, is logged
\* without a previous time
C15_Witness ==
    /\ manager.mode = NONE
    /\ manager.listener
    /\ Processed
    /\ Len(out.input) = 1
    /\ out.input[1][1] = Impression("k1", "f1", TIME_INTERVAL_MS + 1)
    /\ seen.before = <<Some(2)>>
    /\ out.logged = out.input

\* C16: in debug mode the returned list is the list of the inputs, in
\* input order, each with the time of the sighting of its fingerprint
\* before it as previous time (null at the first sighting).
C16_DebugReturnsAll ==
    (Processed /\ manager.mode = DEBUG) =>
        out.for_log = [i \in 1..Len(out.input) |->
                         [out.input[i][1] EXCEPT
                             !.previous_time = seen.before[i]]]

\* the keys of the (feature, key) pairs with the feature f
KeysOf(pairs, f) == { p[2] : p \in { q \in pairs : q[1] = f } }

\* the counter holds what the tally of the inputs says
CounterIsTally ==
    /\ DOMAIN counter =
          { [feature |-> k[1], timeframe |-> k[2] * TIME_INTERVAL_MS] :
              k \in DOMAIN seen.tally }
    /\ \A k \in DOMAIN seen.tally :
          counter[[feature |-> k[1], timeframe |-> k[2] * TIME_INTERVAL_MS]]
             = seen.tally[k]

\* C17: in none mode process_impressions returns the empty list, the
\* counter holds one count per input for (feature, hour of its time), and
\* the unique keys map each feature to the keys handled for it since they
\* were popped.
C17_NoneStrategy ==
    manager.mode = NONE =>
        /\ out.for_log = <<>>
        /\ CounterIsTally
        /\ DOMAIN unique_keys = { p[1] : p \in seen.keys }
        /\ \A f \in DOMAIN unique_keys : unique_keys[f] = KeysOf(seen.keys, f)

\* none mode: k1/f1 twice and k2/f1 once
C17_Witness ==
    /\ manager.mode = NONE
    /\ Processed
    /\ seen.sincePop = 3
    /\ seen.before /= <<>>
    /\ seen.before[Len(seen.before)] /= None
    /\ unique_keys = ("f1" :> {"k1", "k2"})
    /\ counter = ([feature |-> "f1", timeframe |-> 0] :> 3)

\* the strategy of the manager tracks its inputs with the counter
Counting == manager.mode \in {OPTIMIZED, NONE}

\* after pop_all the counter is empty
C18_PoppedEmpty == (Counting /\ out.op = "pop_all") => counter = NoData

\* pop_all returns one entry for each (feature, hour) of the impressions
\* tracked since the pop_all before, with their number
C18_PopStep ==
    (Counting /\ out'.op = "pop_all") =>
        out'.popped =
            { [feature |-> k[1], timeframe |-> k[2] * TIME_INTERVAL_MS,
               count |-> seen.tally[k]] : k \in DOMAIN seen.tally }

\* C18: pop_all returns exactly one (feature, timeframe, count) entry for
\* each (feature, hour) among the impressions tracked since the pop_all
\* before, the count being their number, and leaves the counter empty; a
\* pop_all right after a pop_all returns nothing.
C18_CounterPopAll == []C18_PoppedEmpty /\ [][C18_PopStep]_vars

\* two impressions of f1 in the first hour and one in the second, popped
C18_Witness ==
    /\ Counting
    /\ out.op = "pop_all"
    /\ out.popped = { [feature |-> "f1", timeframe |-> 0, count |-> 2],
                      [feature |-> "f1", timeframe |-> TIME_INTERVAL_MS,
                       count |-> 1] }
    /\ counter = NoData

\* a pop_all that returns nothing although impressions were handled:
\* the pop_all before it took them
C18_WitnessEmpty ==
    /\ Counting
    /\ out.op = "pop_all"
    /\ out.popped = {}
    /\ seen.processed > 0

(***************************************************************************)
(* Properties of the counter and the unique-keys tracker under threads.    *)
(***************************************************************************)
RECURSIVE StillToTrack(_, _)
\* the impressions with counter key k that the track calls under way in
\* the threads ts have not added yet
StillToTrack(ts, k) ==
    IF ts = {} THEN 0
    ELSE LET t == CHOOSE x \in ts : TRUE
         IN  Len(SelectSeq(calls[t].todo, LAMBDA imp : CounterKey(imp) = k))
             + StillToTrack(ts \ {t}, k)

\* C19: whatever the interleaving of track and pop_all calls of several
\* threads, every impression passed to track is counted in exactly one
\* pop_all result or is still held by the counter (or its track call has
\* not reached it yet), and every (feature, key) tracked is reported by a
\* pop_all or still held, and not reported more often than it was tracked.
C19_NothingLostOrTwice ==
    /\ DOMAIN counter \subseteq DOMAIN seen.started
    /\ DOMAIN seen.reported \subseteq DOMAIN seen.started
    /\ \A k \in DOMAIN seen.started :
          CountOf(seen.reported, k) + CountOf(counter, k)
             + StillToTrack(Threads, k) = seen.started[k]
    /\ DOMAIN KeysHeld(unique_keys) \subseteq DOMAIN seen.keysTracked
    /\ DOMAIN seen.keysReported \subseteq DOMAIN seen.keysTracked
    /\ \A fk \in DOMAIN seen.keysTracked :
          LET about == CountOf(seen.keysReported, fk)
                          + CountOf(KeysHeld(unique_keys), fk)
          IN  about >= 1 /\ about <= seen.keysTracked[fk]

\* a pop_all of one thread fell between the two increments of a track
\* call of another: the first impression is reported, the second one is
\* neither added nor reported yet, and a key is held
C19_Witness ==
    /\ \E t \in Threads : calls[t].op = "track" /\ Len(calls[t].todo) = 1
    /\ seen.n = 3
    /\ seen.reported /= NoData
    /\ counter = NoData
    /\ unique_keys /= NoData

(***************************************************************************)
(* Properties of the observer under threads.                               *)
(***************************************************************************)
\* the calls before the i-th one, in the order of the mutex, with its
\* fingerprint
SameBefore(i) ==
    { j \in 1..(i - 1) :
        HasherProcess(seen[j].input) = HasherProcess(seen[i].input) }

\* C20: of the test_and_set calls of several threads with one fingerprint
\* that the cache did not hold, the first one in the order of the mutex
\* observes no previous time and each other one observes the time of the
\* call with that fingerprint right before it in that order.
C20_SerializedSightings ==
    \A i \in 1..Len(seen) :
        seen[i].result.previous_time =
            IF SameBefore(i) = {} THEN None
            ELSE Some(seen[Largest(SameBefore(i))].input.time)

(***************************************************************************)
(* Properties of synchronize_splits calls made at once.                    *)
(***************************************************************************)
\* the tills the calls have passed to set_change_number
TillsWritten == { hist[t].wrote[1] : t \in { u \in DOMAIN hist : hist[u].wrote /= None } }

\* C21: once all of the synchronize_splits calls made at once on one
\* storage have returned, the change number of the storage is the largest
\* till any of them passed to set_change_number.
C21_LargestTillWins ==
    ((\A t \in DOMAIN th : Returned(t)) /\ TillsWritten /= {}) =>
        storage.cn = Some(Largest(TillsWritten))

(***************************************************************************)
(* Properties of the shutdown.                                             *)
(***************************************************************************)
\* a call that sleeps between two attempts when the shutdown is asked for,
\* or that is about to sleep after it, makes no further attempt
C22_Step ==
    \A t \in DOMAIN th :
        (shutdown /\ th[t].pc = "attempt_sleep") =>
            th'[t].pc \in {"attempt_sleep", "done", "raised"}

\* C22: when the shutdown is asked for while _attempt_split_sync sleeps
\* between two attempts, the sleep returns at once and the call leaves
\* the retry loop without another fetch.
C22_CancelledSleep == [][C22_Step]_vars

(***************************************************************************)
(* Properties of the sanitizer.                                            *)
(***************************************************************************)
Sanitized == local.mode = "sanitizer"

\* the value of key k of object x is missing or null
Absent(x, k) == k \notin DOMAIN x \/ x[k] = None

\* the till expected of the sanitizer for the input x
ExpectedTill(x) ==
    IF Absent(x, "till") \/ x["till"][1] < -1 THEN -1 ELSE x["till"][1]

\* the since expected of the sanitizer for the input x
ExpectedSince(x) ==
    IF \/ Absent(x, "since")
       \/ x["since"][1] < -1
       \/ x["since"][1] > ExpectedTill(x)
    THEN ExpectedTill(x) ELSE x["since"][1]

\* C23: the output of _sanitize_json_elements has till >= -1 and
\* since <= till; till is -1 exactly when it was missing, null or below
\* -1 and is unchanged otherwise; since is the sanitized till exactly when
\* it was missing, null, below -1 or above till, and unchanged otherwise.
C23_SinceTill ==
    Sanitized =>
        /\ local.output["till"][1] >= -1
        /\ local.output["since"][1] <= local.output["till"][1]
        /\ local.output["till"] = Some(ExpectedTill(local.input))
        /\ local.output["since"] = Some(ExpectedSince(local.input))

\* since 2 above till 1 becomes 1
C23_Witness ==
    /\ Sanitized
    /\ "since" \in DOMAIN local.input /\ local.input["since"] = Some(2)
    /\ "till" \in DOMAIN local.input /\ local.input["till"] = Some(1)
    /\ local.output["since"] = Some(1)
    /\ local.output["till"] = Some(1)

\* the splits of the input that have a name that is not blank
Survivors(x) ==
    IF Absent(x, "splits") THEN <<>>
    ELSE SelectSeq(x["splits"][1],
                   LAMBDA split : /\ "name" \in DOMAIN split
                                  /\ split["name"][1] \notin {"", " ", "  "})

\* the condition has the type ROLLOUT and a matcher of type ALL_KEYS
RolloutWithAllKeys(c) ==
    /\ "conditionType" \in DOMAIN c /\ c["conditionType"] = "ROLLOUT"
    /\ "matcherGroup" \in DOMAIN c
    /\ "matchers" \in DOMAIN c["matcherGroup"]
    /\ "ALL_KEYS" \in { c["matcherGroup"]["matchers"][i]["matcherType"] :
                          i \in 1..Len(c["matcherGroup"]["matchers"]) }

\* the conditions of a split, none when missing or null
ConditionsOf(split) ==
    IF Absent(split, "conditions") THEN <<>> ELSE split["conditions"][1]

\* the split has a default rule
Guarded(split) ==
    \E i \in 1..Len(ConditionsOf(split)) :
        RolloutWithAllKeys(ConditionsOf(split)[i])

\* C24: every split that survives the sanitizer has a condition of type
\* ROLLOUT with a matcher of type ALL_KEYS: a split that came without one
\* (or with conditions missing or null) has exactly one appended after
\* its conditions, giving 100% to the treatment off, and a split that came
\* with one keeps its conditions as they were.
C24_DefaultRule ==
    Sanitized =>
        LET before == Survivors(local.input)
            after == local.output["splits"][1]
        IN  /\ Len(after) = Len(before)
            /\ \A i \in 1..Len(after) :
                  /\ Guarded(after[i])
                  /\ Guarded(before[i]) =>
                        after[i]["conditions"] = before[i]["conditions"]
                  /\ ~Guarded(before[i]) =>
                        LET cs == after[i]["conditions"][1]
                        IN  /\ Len(cs) = Len(ConditionsOf(before[i])) + 1
                            /\ SubSeq(cs, 1, Len(cs) - 1)
                                  = ConditionsOf(before[i])
                            /\ RolloutWithAllKeys(cs[Len(cs)])
                            /\ [treatment |-> "off", size |-> 100]
                                  \in { cs[Len(cs)].partitions[j] :
                                          j \in 1..Len(cs[Len(cs)].partitions) }

\* a split whose only condition has a matcher of type ALL_KEYS but not the
\* type ROLLOUT gets the default rule after it
C24_Witness ==
    /\ Sanitized
    /\ Len(Survivors(local.input)) = 1
    /\ ConditionsOf(Survivors(local.input)[1])
          = <<[RolloutAllKeys EXCEPT !.conditionType = "WHITELIST"]>>
    /\ Len(local.output["splits"][1][1]["conditions"][1]) = 2

\* the element k of the split as the sanitizer has to leave it: as it
\* came when present, not null and Ok, its default otherwise
Coerced(split, k, Ok(_), default) ==
    IF ~Absent(split, k) /\ Ok(split[k][1]) THEN split[k] ELSE Some(default)

\* C25: for every split that survives, _sanitize_split_elements leaves
\* trafficAllocation in 0..100, trafficAllocationSeed, seed and
\* changeNumber >= 0, status ACTIVE or ARCHIVED and algo 2; an element
\* that is missing, null or out of its bounds gets its default (100, the
\* current time, the current time, 0, ACTIVE, 2; trafficTypeName user and
\* killed false when missing or null) and any other element stays as it
\* came.
C25_Coercion ==
    Sanitized =>
        LET before == Survivors(local.input)
            after == local.output["splits"][1]
        IN  /\ Len(after) = Len(before)
            /\ \A i \in 1..Len(after) :
                  LET b == before[i]
                      a == after[i]
                  IN  /\ a["name"] = b["name"]
                      /\ a["trafficTypeName"]
                            = Coerced(b, "trafficTypeName",
                                      LAMBDA v : TRUE, "user")
                      /\ a["trafficAllocation"]
                            = Coerced(b, "trafficAllocation",
                                      LAMBDA v : v >= 0 /\ v <= 100, 100)
                      /\ a["trafficAllocationSeed"]
                            = Coerced(b, "trafficAllocationSeed",
                                      LAMBDA v : v >= 0, local.now)
                      /\ a["seed"]
                            = Coerced(b, "seed", LAMBDA v : v >= 0, local.now)
                      /\ a["status"]
                            = Coerced(b, "status",
                                      LAMBDA v : v \in {"ACTIVE", "ARCHIVED"},
                                      "ACTIVE")
                      /\ a["killed"]
                            = Coerced(b, "killed", LAMBDA v : TRUE, FALSE)
                      /\ a["changeNumber"]
                            = Coerced(b, "changeNumber", LAMBDA v : v >= 0, 0)
                      /\ a["algo"] = Coerced(b, "algo", LAMBDA v : v = 2, 2)
                      /\ a["trafficAllocation"][1] \in 0..100
                      /\ a["trafficAllocationSeed"][1] >= 0
                      /\ a["seed"][1] >= 0
                      /\ a["changeNumber"][1] >= 0
                      /\ a["algo"][1] = 2

\* a split with trafficAllocation 101 and without seed: 100 and the
\* current time; its status ARCHIVED stays
C25_Witness ==
    /\ Sanitized
    /\ Len(Survivors(local.input)) = 1
    /\ "trafficAllocation" \in DOMAIN Survivors(local.input)[1]
    /\ Survivors(local.input)[1]["trafficAllocation"] = Some(101)
    /\ "seed" \notin DOMAIN Survivors(local.input)[1]
    /\ local.output["splits"][1][1]["trafficAllocation"] = Some(100)
    /\ local.output["splits"][1][1]["seed"] = Some(local.now)
    /\ local.output["splits"][1][1]["status"] = Some(ARCHIVED)

\* C26: no split that survives the sanitizer has the defaultTreatment ""
\* or " "; a split that came with one of the two, or with none or null,
\* has the defaultTreatment on.
C26_DefaultTreatment ==
    Sanitized =>
        LET before == Survivors(local.input)
            after == local.output["splits"][1]
        IN  \A i \in 1..Len(after) :
               /\ after[i]["defaultTreatment"][1] \notin {"", " "}
               /\ (\/ Absent(before[i], "defaultTreatment")
                   \/ before[i]["defaultTreatment"][1] \in {"", " "})
                  => after[i]["defaultTreatment"] = Some("on")

(***************************************************************************)
(* Properties of the local synchronizer in JSON mode.                      *)
(***************************************************************************)
\* the array of splits as it is written in the file
SplitsWritten(file) ==
    IF file.kind = "object" /\ "splits" \in DOMAIN file.parsed
    THEN file.parsed["splits"] ELSE None

\* a call in JSON mode that finds the array of splits of its file as the
\* call before found it makes no call of the storage
C27_Step ==
    (/\ local.mode = "JSON" /\ local.file /= None
     /\ local.file[1].kind = "object"
     /\ local'.file /= None
     /\ SplitsWritten(local'.file[1]) = SplitsWritten(local.file[1]))
    => (local'.ops = <<>> /\ storage' = storage)

\* C27: in JSON mode a synchronize_splits call that finds the array of
\* splits of the file unchanged since the call before, whatever the
\* clock shows, makes no put, no remove and no set_change_number.
C27_UnchangedFileNoOp == [][C27_Step]_vars

\* the storage calls expected when the file is applied: put for a split
\* that is not ARCHIVED, remove by name for one that is, in the order of
\* the file, and set_change_number(till) at the end
ExpectedOps(parsed) ==
    LET splits == Survivors(parsed)
    IN  [i \in 1..Len(splits) |->
            IF ~Absent(splits[i], "status") /\ splits[i]["status"][1] = ARCHIVED
            THEN StorageOp("remove", splits[i]["name"][1], -1)
            ELSE StorageOp("put", splits[i]["name"][1], -1)]
        \o <<StorageOp("set_change_number", "", ExpectedTill(parsed))>>

RECURSIVE NamesAfter(_, _)
\* the names in storage after the storage calls ops
NamesAfter(names, ops) ==
    IF ops = <<>> THEN names
    ELSE NamesAfter(IF Head(ops).op = "put" THEN names \cup {Head(ops).name}
                    ELSE IF Head(ops).op = "remove"
                    THEN names \ {Head(ops).name}
                    ELSE names,
                    Tail(ops))

\* a call in JSON mode touches the storage only when the till of its file
\* is not below the change number of the storage; a call that applies the
\* file and returns has made the expected calls and left the change
\* number at till; the change number never decreases
C28_Step ==
    (local.mode = "JSON" /\ local'.file /= None) =>
        LET file == local'.file[1]
            ops == local'.ops
        IN  /\ ops /= <<>> =>
                  /\ storage.cn /= None
                  /\ file.kind = "object"
                  /\ ExpectedTill(file.parsed) >= storage.cn[1]
            /\ (/\ storage.cn /= None /\ file.kind = "object"
                /\ ExpectedTill(file.parsed) < storage.cn[1])
               => (ops = <<>> /\ storage' = storage)
            /\ (ops /= <<>> /\ local'.exc = None) =>
                  /\ ops = ExpectedOps(file.parsed)
                  /\ storage'.cn = Some(ExpectedTill(file.parsed))
                  /\ storage'.splits = NamesAfter(storage.splits, ops)
            /\ ops = <<>> => storage' = storage
            /\ storage.cn /= None =>
                  (storage'.cn /= None /\ storage'.cn[1] >= storage.cn[1])

\* C28: in JSON mode a file whose content changed is applied only when
\* its sanitized till is not below the change number of the storage; when
\* it is applied each sanitized split is put if ACTIVE and removed by name
\* otherwise and the change number ends at till; when till is lower the
\* storage gets no put, remove or set_change_number.  The change number
\* of the storage never decreases.
C28_TillGating == [][C28_Step]_vars

\* the storage is at change number 2 with A; a file with till 0 that
\* archives A was read and left the storage alone
C28_Witness ==
    /\ local.mode = "JSON"
    /\ storage = [cn |-> Some(2), splits |-> {"A"}]
    /\ local.file = Some([kind |-> "object",
                          parsed |-> [till |-> Some(0),
                                      splits |-> Some(<<BaseSplit>>)]])
    /\ local.sha = GetSha(SanitizeSplit(local.file[1].parsed, local.now)["splits"][1])
    /\ local.ops = <<>>
    /\ local.exc = None

\* a file was applied: A put and then removed, the change number set to 2
C28_WitnessApplied ==
    /\ local.mode = "JSON"
    /\ local.exc = None
    /\ local.ops = <<StorageOp("put", "A", -1), StorageOp("remove", "A", -1),
                     StorageOp("set_change_number", "", 2)>>
    /\ storage.cn = Some(2)

(***************************************************************************)
(* Properties of the local synchronizer in legacy and YAML mode, and of    *)
(* the errors of the three modes.                                          *)
(***************************************************************************)
\* the feature names a file defines: those of its lines made of a feature
\* and a treatment, or those of its statements
FeaturesDefined(file) ==
    IF file.kind = "lines"
    THEN {file.content[i][1] :
            i \in {j \in 1..Len(file.content) :
                     /\ Len(file.content[j]) = 3
                     /\ \A k \in {1, 3} : file.content[j][k] \notin {" ", "#"}
                     /\ file.content[j][2] = " "}}
    ELSE {file.content[i].feature : i \in 1..Len(file.content)}

\* C29: after every successful synchronize_splits in legacy or YAML mode
\* the names in storage are exactly the feature names the file defined at
\* that read, whatever the storage held before and however the file was
\* edited between the calls.
C29_DiffRemoval ==
    (local.mode \in {LEGACY, YAML} /\ local.file /= None /\ local.exc = None)
    => storage.splits = FeaturesDefined(local.file[1])

\* a legacy file defining A only was read over a storage that held Z: A
\* was put and Z removed
C29_Witness ==
    /\ local.mode = LEGACY
    /\ ~IsYamlFilename(local.filename)
    /\ local.exc = None
    /\ local.ops = <<StorageOp("put", "A", -1), StorageOp("remove", "Z", -1)>>
    /\ storage.splits = {"A"}

\* a YAML file defining B only was read after one defining A: B was put
\* and A removed
C29_WitnessYaml ==
    /\ local.mode = YAML
    /\ IsYamlFilename(local.filename)
    /\ local.exc = None
    /\ local.ops = <<StorageOp("put", "B", -1), StorageOp("remove", "A", -1)>>
    /\ storage.splits = {"B"}
    /\ storage.cn = None

\* the files no mode can read
FailingKinds == {"unreadable", "invalid", "array", "empty"}

\* C30: a failure of synchronize_splits of the local synchronizer, in any
\* of the three modes, reaches the caller as APIException and as nothing
\* else: a file that cannot be read or parsed, a JSON root that is not an
\* object and a YAML statement without treatment all end the call with
\* APIException.
C30_ErrorMapping ==
    /\ local.exc \in {None, Some(APIException)}
    /\ local.file /= None =>
          /\ local.file[1].kind \in FailingKinds
                => local.exc = Some(APIException)
          /\ (/\ local.file[1].kind = "list"
              /\ \E i \in 1..Len(local.file[1].content) :
                    "treatment" \notin DOMAIN local.file[1].content[i].data)
                => local.exc = Some(APIException)

\* in JSON mode the file held the split C, which cannot be parsed, and
\* the call ended with APIException
C30_Witness ==
    /\ local.mode = JSON
    /\ local.file /= None
    /\ local.file[1].kind = "object"
    /\ local.file[1].parsed["splits"][1] =
          <<[BaseSplit EXCEPT
                !["name"] = Some("C"), !["status"] = Some(ACTIVE),
                !["conditions"] = Some(<<Without(RolloutAllKeys, "matcherGroup")>>)]>>
    /\ storage.cn = Some(-1)
    /\ local.exc = Some(APIException)

\* in legacy mode the file could not be read
C30_WitnessLegacy ==
    /\ local.mode = LEGACY
    /\ ~IsYamlFilename(local.filename)
    /\ local.file /= None
    /\ local.file[1].kind = "unreadable"
    /\ local.exc = Some(APIException)

\* in YAML mode the file was not YAML
C30_WitnessYaml ==
    /\ local.mode = YAML
    /\ IsYamlFilename(local.filename)
    /\ local.file /= None
    /\ local.file[1].kind = "invalid"
    /\ local.exc = Some(APIException)

\* in JSON mode the root of the file was an array
C30_WitnessArray ==
    /\ local.mode = JSON
    /\ local.file /= None
    /\ local.file[1].kind = "array"
    /\ local.exc = Some(APIException)

(***************************************************************************)
(* Properties of the auth API.                                             *)
(***************************************************************************)
\* the call of authenticate that a step makes, if it makes one
AuthCalled == auth'.calls = auth.calls + 1

\* what the claim says of a call whose client answered with a status
AuthByStatus(response, result, before, after) ==
    /\ (200 <= response.status_code /\ response.status_code < 300) =>
          (result.raised = None /\ result.token /= None)
    /\ ~(200 <= response.status_code /\ response.status_code < 300) =>
          /\ result.raised = Some(APIException)
          /\ result.status_code = Some(response.status_code)
    /\ after = before + (IF response.status_code = 401 THEN 1 ELSE 0)
    /\ result.rejections = after

\* what the claim says of a call whose client raised HttpClientException
AuthByTransport(result, before, after) ==
    /\ result.raised = Some(APIException)
    /\ after = before

C31_Step ==
    AuthCalled =>
        LET response == auth'.response[1]
            result == auth'.result[1]
        IN  IF response.raises
            THEN AuthByTransport(result, auth.auth_rejections,
                                 auth'.auth_rejections)
            ELSE AuthByStatus(response, result, auth.auth_rejections,
                              auth'.auth_rejections)

\* C31: authenticate returns a token record without raising when the
\* status is in [200,300); for every other status it raises APIException
\* carrying the status; auth_rejections is incremented once, before the
\* raise, exactly when the status is 401; a transport failure raises
\* APIException and increments nothing.
C31_AuthOutcome == [][C31_Step]_vars

\* the same for the calls whose answer has a body that is JSON
AuthOutcomeOfJsonBodies ==
    [][(AuthCalled /\ auth'.response[1].body.json) => C31_Step]_vars

(***************************************************************************)
(* Properties of the change number in remote mode.                         *)
(***************************************************************************)
\* no step lowers the change number of the storage
NotLowered == StorageChangeNumber(storage') >= StorageChangeNumber(storage)

\* the step is a set_change_number of a response whose since is the
\* change number the fetch asked for
WritesAnswerToRequest(t) ==
    /\ th[t].pc = "fu_apply"
    /\ storage'.cn /= storage.cn
    /\ th[t].resp[1].since = th[t].change_number

\* C32 as stated: for single-threaded calls and fetch responses that
\* satisfy since <= till, no set_change_number of _fetch_until lowers the
\* change number stored before.
C32_Monotone == [][NotLowered]_vars

\* C32 amended: for single-threaded calls, a set_change_number of a
\* response whose since equals the change number the fetch asked for (and
\* whose till is not below its since) does not lower the change number;
\* no other step of a call changes it.
C32_MonotoneEchoed ==
    [][/\ storage'.cn /= storage.cn => \E t \in Callers : th[t].pc = "fu_apply"
       /\ \A t \in Callers : WritesAnswerToRequest(t) => NotLowered]_vars

\* the storage is at 0, the fetch that asked for the changes since 0 was
\* answered with since 0 and till 1, and the splits of the answer are
\* applied: set_change_number(1) is the step that follows
C32_Witness ==
    /\ storage.cn = Some(0)
    /\ th[1].pc = "fu_apply"
    /\ th[1].change_number = 0
    /\ th[1].resp /= None
    /\ th[1].resp[1].since = 0 /\ th[1].resp[1].till = 1
    /\ SplitsApplied(th[1].resp[1], th[1].idx)

(***************************************************************************)
(* Properties of the top of _fetch_until's loop.                           *)
(***************************************************************************)
\* the step is thread t at the top of the loop of _fetch_until
AtLoopTop(t) == th[t].pc = "fu_loop" /\ th'[t] /= th[t]

\* the iteration ends the call of _fetch_until: it hands back the change
\* number read and the segments gathered, and fetches and writes nothing
ReturnsEarly(t, cn) ==
    /\ th'[t].pc = "attempt_check"
    /\ th'[t].ret_cn = cn
    /\ th'[t].fu_segs = th[t].fu_segs
    /\ hist'[t].fetches = hist[t].fetches
    /\ storage' = storage

\* the iteration goes on to fetch the changes since the change number read
IssuesFetch(t, cn) ==
    /\ th'[t].pc = "fu_fetch"
    /\ th'[t].change_number = cn
    /\ storage' = storage

\* C33: at the top of each iteration, if till is not null and below the
\* storage change number (null read as -1), _fetch_until returns that
\* change number and the segments accumulated so far, without a fetch
\* and without put, remove or set_change_number; if till is null or not
\* below the change number, equal included, a fetch is issued.
C33_EarlyExit ==
    [][\A t \in Callers :
          AtLoopTop(t) =>
              LET cn == IF storage.cn = None THEN -1 ELSE storage.cn[1]
                  till == th[t].till
              IN  IF till /= None /\ till[1] < cn
                  THEN ReturnsEarly(t, cn)
                  ELSE IssuesFetch(t, cn)]_vars

\* a call with till 0 fetched once, got a split with a segment and the
\* till 1 without convergence, and left the loop at its second iteration
C33_Witness ==
    /\ th[1].pc = "attempt_check"
    /\ th[1].till = Some(0)
    /\ th[1].ret_cn = 1
    /\ th[1].fu_segs = {"s1"}
    /\ hist[1].fetches = 1
    /\ hist[1].nConv = 0

\* a call with till 0 found the change number 0 and goes on to fetch
C33_WitnessEqual ==
    /\ th[1].pc = "fu_fetch"
    /\ th[1].till = Some(0)
    /\ th[1].change_number = 0
    /\ storage.cn = Some(0)

(***************************************************************************)
(* Properties of the YAML reader.                                          *)
(***************************************************************************)
\* the places of the file, in rising order, where a statement of the
\* feature stands that has keys, or that has none
PlacesOf(content, feature, with_keys) ==
    SelectSeq([i \in 1..Len(content) |-> i],
              LAMBDA i : /\ content[i].feature = feature
                         /\ ("keys" \in DOMAIN content[i].data) = with_keys)

\* the condition expected of one statement
ConditionOf(data) ==
    IF "keys" \in DOMAIN data
    THEN [matcherType |-> "WHITELIST",
          whitelist |-> IF data["keys"].list THEN data["keys"].value
                        ELSE <<data["keys"].value>>,
          treatment |-> data["treatment"]]
    ELSE [matcherType |-> "ALL_KEYS", whitelist |-> <<>>,
          treatment |-> data["treatment"]]

\* the treatments of the feature for which a statement gives a config
TreatmentsWithConfig(content, feature) ==
    {content[i].data["treatment"] :
        i \in {j \in 1..Len(content) : /\ content[j].feature = feature
                                       /\ "config" \in DOMAIN content[j].data}}

\* the flag has the conditions of the statements with keys, in the order
\* of the file, then those of the statements without, in the order of
\* the file, and the configs by treatment
OrderedFlag(flag, content) ==
    LET keyed == PlacesOf(content, flag.name, TRUE)
        plain == PlacesOf(content, flag.name, FALSE)
    IN  /\ Len(flag.conditions) = Len(keyed) + Len(plain)
        /\ \A i \in 1..Len(keyed) :
              flag.conditions[i] = ConditionOf(content[keyed[i]].data)
        /\ \A i \in 1..Len(plain) :
              flag.conditions[Len(keyed) + i] = ConditionOf(content[plain[i]].data)
        /\ DOMAIN flag.configurations = TreatmentsWithConfig(content, flag.name)
        /\ \A tr \in DOMAIN flag.configurations :
              \E i \in 1..Len(content) :
                  /\ content[i].feature = flag.name
                  /\ "config" \in DOMAIN content[i].data
                  /\ content[i].data["treatment"] = tr
                  /\ content[i].data["config"] = flag.configurations[tr]

\* C34: for every YAML file and every feature in it the flag produced has
\* the whitelist conditions of the entries with keys (a scalar made a list
\* of one) before the ALL_KEYS conditions of the entries without keys,
\* whatever the order of the entries; within each group the order of the
\* file is kept, and the configs are collected by treatment.
C34_YamlConditionOrder ==
    (/\ local.mode \in {LEGACY, YAML} /\ local.file /= None
     /\ local.file[1].kind = "list" /\ local.exc = None)
    => /\ {local.fetched[i].name : i \in 1..Len(local.fetched)}
              = {local.file[1].content[i].feature :
                    i \in 1..Len(local.file[1].content)}
       /\ \A i \in 1..Len(local.fetched) :
              OrderedFlag(local.fetched[i], local.file[1].content)

\* the file gives A on for all keys and then A off for the key k: the
\* flag A has the whitelist condition first
C34_Witness ==
    /\ local.mode = YAML
    /\ local.file /= None
    /\ local.file[1].kind = "list"
    /\ local.file[1].content =
          << [feature |-> "A", data |-> [treatment |-> "on"]],
             [feature |-> "A",
              data |-> [treatment |-> "off",
                        keys |-> [list |-> FALSE, value |-> "k"]]] >>
    /\ Len(local.fetched) = 1
    /\ local.fetched[1].conditions =
          << [matcherType |-> "WHITELIST", whitelist |-> <<"k">>,
              treatment |-> "off"],
             [matcherType |-> "ALL_KEYS", whitelist |-> <<>>,
              treatment |-> "on"] >>

(***************************************************************************)
(* Frame of the synchronization in legacy and YAML mode.                   *)
(***************************************************************************)
\* the step is a call of synchronize_splits in legacy or YAML mode
LegacyCalled ==
    /\ local.mode \in {LEGACY, YAML}
    /\ local'.file /= None
    /\ <<storage, local>>' /= <<storage, local>>

\* C39: synchronize_splits in legacy or YAML mode never calls
\* set_change_number and leaves the change number of the storage as it
\* was; it makes all the puts of the flags of the file before any
\* remove, and it returns an empty list of segments.
C39_LegacyFrame ==
    [][LegacyCalled =>
          LET ops == local'.ops
          IN  /\ storage'.cn = storage.cn
              /\ \A i \in 1..Len(ops) : ops[i].op \in {"put", "remove"}
              /\ \A i, j \in 1..Len(ops) :
                    (ops[i].op = "remove" /\ ops[j].op = "put") => j < i
              /\ local'.exc = None =>
                    /\ local'.result = Some(<<>>)
                    /\ {ops[i].name : i \in {j \in 1..Len(ops) : ops[j].op = "put"}}
                          = FeaturesDefined(local'.file[1])
              /\ local'.exc /= None => (ops = <<>> /\ local'.result = None)]_vars

\* a storage without change number held Z; a file defining A and B was
\* read: A and B were put, then Z removed, and the empty list returned
C39_Witness ==
    /\ local.mode \in {LEGACY, YAML}
    /\ local.exc = None
    /\ local.ops = <<StorageOp("put", "A", -1), StorageOp("put", "B", -1),
                     StorageOp("remove", "Z", -1)>>
    /\ local.result = Some(<<>>)
    /\ storage.cn = None

(***************************************************************************)
(* Properties of a response that raises while it is applied.               *)
(***************************************************************************)
RECURSIVE AppliedPrefix(_, _, _)
\* the names in storage after the first n splits of a response
AppliedPrefix(names, splits, n) ==
    IF n = 0 THEN names
    ELSE LET before == AppliedPrefix(names, splits, n - 1)
         IN  IF splits[n].status = ACTIVE THEN before \cup {splits[n].name}
             ELSE before \ {splits[n].name}

\* the call of thread t has raised while applying a response
RaisedInApply(t) == th[t].pc = "raised" /\ th[t].resp /= None

\* the first fetch of a call is about to be made
FirstFetch(t) ==
    /\ th[t].pc = "fu_fetch"
    /\ Len(hist[t].passes) = 1
    /\ CurPass(hist[t]).nFU = 1
    /\ hist[t].fetches = 0

\* C35: if applying a fetch response raises, the splits of the response
\* before the failing one stay put or removed in storage, no
\* set_change_number is made for the response, the storage change number
\* keeps the value the fetch asked from, and the next synchronize_splits
\* fetches from that same change number.
C35_PartialApplication ==
    \A t \in Callers :
        /\ RaisedInApply(t) =>
              /\ th[t].exc /= None
              /\ storage.splits =
                    AppliedPrefix(hist[t].pre, th[t].resp[1].splits, th[t].idx - 1)
              /\ storage.cn = hist[t].snap.cn
              /\ StorageChangeNumber(storage) = th[t].change_number
        /\ FirstFetch(t) =>
              /\ hist[t].snap = storage
              /\ th[t].change_number = StorageChangeNumber(storage)

\* the response asked from -1 held A and then a split without status: A
\* is in storage and the change number is still the one before
C35_Witness ==
    /\ RaisedInApply(1)
    /\ th[1].resp[1].since = -1 /\ th[1].resp[1].till = 1
    /\ th[1].resp[1].splits =
          << [name |-> "A", status |-> ACTIVE, segs |-> {"s1"}],
             [name |-> "C", segs |-> {}] >>
    /\ storage = [cn |-> Some(-1), splits |-> {"A"}]

(***************************************************************************)
(* Properties of the value synchronize_splits returns.                     *)
(***************************************************************************)
\* C36: every call of synchronize_splits that returns without raising,
\* the one in which both passes exhaust their attempts included, returns
\* the set of the segment names of the ACTIVE splits put during the
\* call, gathered over all fetches of both passes.
C36_ReturnedSegments ==
    \A t \in Callers :
        th[t].pc = "done" =>
            /\ th[t].result /= None
            /\ th[t].result[1] = th[t].sy_segs

(***************************************************************************)
(* Properties of the backoff under concurrent calls.                       *)
(***************************************************************************)
\* the delays of a pass are 10, 20, 30, 30, ... seconds from its start
OwnDelays(sleeps) ==
    \A i \in 1..Len(sleeps) :
        sleeps[i] = IF 10 * Pow2(i - 1) < 30 THEN 10 * Pow2(i - 1) ELSE 30

\* C38: when two synchronize_splits calls run at once on one
\* SplitSynchronizer, the i-th sleep of each pass of each call is still
\* min(10 * 2^i, 30) seconds counted from the start of that pass: the
\* backoff reset or get of one call does not change the delays of the
\* other.
C38_BackoffIsolation ==
    \A t \in Syncers :
        \A p \in 1..Len(hist[t].passes) : OwnDelays(hist[t].passes[p].sleeps)

(***************************************************************************)
(* Termination of synchronize_splits.                                      *)
(***************************************************************************)
\* a call of thread t is under way
Running(t) == th[t].pc \notin {"idle", "done", "raised"}

\* no pass calls _fetch_until more often than the attempt limit allows
AttemptsBounded ==
    \A t \in Callers :
        \A p \in 1..Len(hist[t].passes) :
            hist[t].passes[p].nFU <= ON_DEMAND_FETCH_BACKOFF_MAX_RETRIES

\* C37: when the fetch API answers with since = till, or raises, after
\* finitely many fetches from any change number, every synchronize_splits
\* call eventually returns or raises; a pass calls _fetch_until at most
\* 10 times, while the fetches inside one _fetch_until are bounded only
\* by the service reaching since = till, till falling below the storage
\* change number, or an exception.
C37_Termination ==
    /\ []AttemptsBounded
    /\ \A t \in Callers : Running(t) ~> Returned(t)

\* a call has returned after the 10 attempts of each of its two passes,
\* and the last _fetch_until call fetched more than once
C37_Witness ==
    /\ th[1].pc = "done"
    /\ Len(hist[1].passes) = 2
    /\ \A p \in 1..2 :
          hist[1].passes[p].nFU = ON_DEMAND_FETCH_BACKOFF_MAX_RETRIES
    /\ hist[1].fetches > 1

=============================================================================
